---- MODULE Spec2Model ----
(***************************************************************************)
(* Online validation of two deployed fraud-detection models                *)
(* (src/src/online-validation.py): the OnlineValidator object, its         *)
(* transaction buffer, performance evaluator, alert checker and the        *)
(* validation-cycle driver started by main.                                *)
(*                                                                         *)
(* Numbers.  Time is an integer number of milliseconds.  A probability is  *)
(* an integer number of percent (50 is 0.5).  A metric (precision, recall, *)
(* F1, AUC, drift) is an exact fraction <<n, d>> with d > 0, compared by   *)
(* cross-multiplication; floating-point rounding is modelled where the   *)
(* comparison report depends on it (FloatPercentChange).                  *)
(***************************************************************************)
EXTENDS Integers, Sequences, FiniteSets, TLC

VARIABLES
    pc,                  \* position of the program: see Main, RunValidationCycle
    exit_code,           \* main's return value, NoExit while running
    args,                \* the parsed command line
    ref_data,            \* data/splits/train_v2.csv as it is when read
    holdout,             \* data/splits/holdout_test.csv as it is when read
    served,              \* how each deployed model scores a transaction
    feature_columns,     \* OnlineValidator.feature_columns
    scaler,              \* OnlineValidator.scaler (<<>> is None)
    baseline_stats,      \* OnlineValidator.baseline_stats (<<>> is None)
    transaction_buffer,  \* OnlineValidator.transaction_buffer
    performance_history, \* OnlineValidator.performance_history
    now,                 \* the wall clock, in ms
    start_time,          \* run_continuous_validation: start_time
    cycle_count,         \* run_continuous_validation: cycle_count
    batch_size,          \* run_validation_cycle: batch_size
    test_transactions,   \* run_validation_cycle: test_transactions
    idx,                 \* run_validation_cycle: the loop index i (1-based)
    baseline_results,    \* run_validation_cycle: baseline_results
    candidate_results,   \* run_validation_cycle: candidate_results
    baseline_result,     \* run_validation_cycle: baseline_result (<<>> is None)
    candidate_result,    \* run_validation_cycle: candidate_result (<<>> is None)
    baseline_alerts,     \* run_validation_cycle: baseline_alerts
    candidate_alerts,    \* run_validation_cycle: candidate_alerts
    report,              \* run_validation_cycle: what the comparison reported
    calls,               \* history: the (index, model) pairs scored in this cycle
    last_result,         \* the value returned by the last evaluator call
    last_alerts,         \* the value returned by the last alert check
    appended,            \* history: every record appended to the buffer, in order
    feedback_count,      \* the value returned by the last collect_delayed_feedback
    last_drift,          \* the last direct call of calculate_drift_score
    config_file,         \* k8s/base/model-config.yaml
    config_run,          \* the last run of update-model-config.py
    futures,             \* replay_transactions_batch: each submitted call, by id
    all_results,         \* replay_transactions_batch: all_results
    batch_start,         \* replay_transactions_batch: batch_start
    hash_seed,           \* the seed of str hashing in this process (PYTHONHASHSEED)
    wire,                \* history: the last inference request put on the wire
    requests,            \* history: the number of inference requests sent
    log                  \* history: what the last step logged

vars == <<pc, exit_code, args, ref_data, holdout, served, feature_columns, scaler,
          baseline_stats, transaction_buffer, performance_history, now,
          start_time, cycle_count, batch_size, test_transactions, idx,
          baseline_results, candidate_results, baseline_result, candidate_result,
          baseline_alerts, candidate_alerts, report, calls, last_result,
          last_alerts, last_drift, feedback_count, appended, requests, wire,
          config_file, config_run, futures, all_results, batch_start, hash_seed, log>>

mainVars == <<pc, exit_code, args, ref_data, holdout, served>>
objVars == <<feature_columns, scaler, baseline_stats>>
loopVars == <<start_time, cycle_count>>
cycleVars == <<batch_size, test_transactions, idx, baseline_results, candidate_results,
               baseline_result, candidate_result, baseline_alerts, candidate_alerts,
               report, calls>>

(***************************************************************************)
(* Bounds of the model.  BufferMaxLen, HistoryMaxLen and MinSampleSize     *)
(* stand for the code's 10000, 100 and 10, scaled down so that eviction    *)
(* and the sample threshold are reached within the bounds.                 *)
(***************************************************************************)
BufferMaxLen == 8
HistoryMaxLen == 2
MinSampleSize == 3
MaxAppends == 10
MaxClockMinutes == 17

NumV == 1
MaxEvalRecords == 5

(***************************************************************************)
(* Program constants.                                                      *)
(***************************************************************************)
FEEDBACK_DELAY_MINUTES == 15
MsPerMinute == 60000
NoClass == -1
NoExit == -1
Baseline == "fraud-v1-baseline"
Candidate == "fraud-v2-candidate"
Shadow == "fraud-v3-shadow"
ConfiguredModels == {Baseline, Candidate}

\* PERFORMANCE_THRESHOLDS, as exact fractions
MIN_PRECISION == <<85, 100>>
MIN_RECALL == <<75, 100>>
MIN_F1 == <<80, 100>>
MIN_AUC == <<85, 100>>
MAX_DRIFT_SCORE == <<15, 100>>

(***************************************************************************)
(* Exact fractions <<n, d>>, d > 0.  NaN is the value numpy gives for the  *)
(* mean of no numbers; every comparison with it is false.                  *)
(***************************************************************************)
Zero == <<0, 1>>
NaN == <<0, 0>>
IsNaN(a) == a[2] = 0
RatEq(a, b) == ~IsNaN(a) /\ ~IsNaN(b) /\ a[1] * b[2] = b[1] * a[2]
RatLt(a, b) == ~IsNaN(a) /\ ~IsNaN(b) /\ a[1] * b[2] < b[1] * a[2]
RatLe(a, b) == ~IsNaN(a) /\ ~IsNaN(b) /\ a[1] * b[2] <= b[1] * a[2]
RatAdd(a, b) == <<a[1] * b[2] + b[1] * a[2], a[2] * b[2]>>
RatMul(a, b) == <<a[1] * b[1], a[2] * b[2]>>
RatDiv(a, b) == <<a[1] * b[2], a[2] * b[1]>>
Abs(x) == IF x < 0 THEN -x ELSE x

\* Python's a / b if b > 0 else 0, on integers
DivOrZero(a, b) == IF b > 0 THEN <<a, b>> ELSE Zero

RECURSIVE SumSeq(_)
SumSeq(s) == IF s = <<>> THEN 0 ELSE Head(s) + SumSeq(Tail(s))

RECURSIVE ProdSeq(_)
ProdSeq(s) == IF s = <<>> THEN 1 ELSE Head(s) * ProdSeq(Tail(s))

Range(s) == {s[i] : i \in DOMAIN s}

(***************************************************************************)
(* Tabular data.  A column name is a pair: f'V{i}' is <<"V", i>>, and the  *)
(* other columns are <<name, 0>>; a row, and a transaction, is a function  *)
(* from keys to numbers.                                                   *)
(***************************************************************************)
ColTime == <<"Time", 0>>
ColAmount == <<"Amount", 0>>
ColClass == <<"Class", 0>>
KeyActualClass == <<"actual_class", 0>>
ColV(i) == <<"V", i>>

\* the columns of the data set: Time, V1.., Amount, Class
DataColumns == <<ColTime>> \o [i \in 1..NumV |-> ColV(i)] \o <<ColAmount, ColClass>>

\* col.startswith('V') or col in ['Time', 'Amount']
IsFeatureColumn(col) == col[1] = "V" \/ col \in {ColTime, ColAmount}

SelectFeatureColumns(columns) == SelectSeq(columns, IsFeatureColumn)

\* train_v2.csv: its columns and the statistics pandas and the scaler
\* compute from it (mean, std with ddof=1, scale_ with zero variance as 1)
RefData(readable, columns, mean, std, scale) ==
    [readable |-> readable, columns |-> columns,
     mean |-> [c \in Range(columns) |-> mean],
     std |-> [c \in Range(columns) |-> std],
     scale |-> [c \in Range(columns) |-> scale]]

RefMissing == RefData(FALSE, <<>>, 0, 0, 1)
RefGood == RefData(TRUE, DataColumns, 2, 2, 2)
\* a training file with one more V column than the transactions carry
RefExtraColumn == RefData(TRUE, DataColumns \o <<ColV(NumV + 1)>>, 2, 2, 2)

Row(class, value) == [c \in Range(DataColumns) |-> IF c = ColClass THEN class ELSE value]
FraudRow == Row(1, 6)
NormalRow == Row(0, 2)

\* holdout_test.csv
Holdout(readable, rows) == [readable |-> readable, rows |-> rows]
HoldoutUnreadable == Holdout(FALSE, <<>>)
HoldoutEmpty == Holdout(TRUE, <<>>)
HoldoutGood == Holdout(TRUE, <<FraudRow, NormalRow, NormalRow, NormalRow>>)

\* the transaction dict built from a row (lines 369-379); transaction_type
\* and is_q1_2024 are read by nothing and are left out
MakeTransaction(row) ==
    [k \in {ColTime, ColAmount, KeyActualClass} \cup {ColV(i) : i \in 1..NumV} |->
        IF k = KeyActualClass THEN row[ColClass] ELSE row[k]]

FraudTx == MakeTransaction(FraudRow)
NormalTx == MakeTransaction(NormalRow)
\* a transaction without ground truth, and one without the Amount feature
UnlabeledTx == [k \in DOMAIN NormalTx \ {KeyActualClass} |-> NormalTx[k]]
NoAmountTx == [k \in DOMAIN FraudTx \ {ColAmount} |-> FraudTx[k]]

\* dict.get(key): None when the key is absent
Get(d, key) == IF key \in DOMAIN d THEN d[key] ELSE NoClass

(***************************************************************************)
(* OnlineValidator._initialize_preprocessing                               *)
(***************************************************************************)
FitScaler(ref, columns) ==
    <<[mean |-> [c \in Range(columns) |-> ref.mean[c]],
       scale |-> [c \in Range(columns) |-> ref.scale[c]]]>>

BaselineStats(ref, columns) ==
    <<[mean |-> [c \in Range(columns) |-> ref.mean[c]],
       std |-> [c \in Range(columns) |-> ref.std[c]]]>>

(***************************************************************************)
(* OnlineValidator._preprocess_transaction: <<>> when it raises            *)
(* ValueError for a missing feature, else <<the scaled vector>>.  The data *)
(* sets are chosen so that the quotient is exact.                          *)
(***************************************************************************)
PreprocessTransaction(transaction_data) ==
    IF \E i \in DOMAIN feature_columns : feature_columns[i] \notin DOMAIN transaction_data
    THEN <<>>
    ELSE <<[i \in DOMAIN feature_columns |->
              (transaction_data[feature_columns[i]] - scaler[1].mean[feature_columns[i]])
                  \div scaler[1].scale[feature_columns[i]]]>>

(***************************************************************************)
(* The serving endpoint's answer to one POST: an exception of requests     *)
(* (connection error, timeout), or a status with a body; Malformed is a    *)
(* body without outputs[0].data[0] or with one that is no number.          *)
(***************************************************************************)
Malformed == -1
NetError == [raised |-> TRUE, status |-> 0, prob |-> Malformed]
Http(status, prob) == [raised |-> FALSE, status |-> status, prob |-> prob]

\* int(prediction_prob > 0.5)
PredictionClass(prediction_prob) == IF prediction_prob > 50 THEN 1 ELSE 0

TransactionResult(transaction_id, timestamp, model_name, prediction_prob, actual_class, features) ==
    [transaction_id |-> transaction_id,
     timestamp |-> timestamp,
     model_name |-> model_name,
     prediction_prob |-> prediction_prob,
     prediction_class |-> PredictionClass(prediction_prob),
     actual_class |-> actual_class,
     feedback_received |-> FALSE,
     features |-> features]

\* mutant: a full buffer drops its newest record instead of its oldest
DequeAppendDropsNewest(q, x, maxlen) ==
    IF Len(q) >= maxlen THEN Append(SubSeq(q, 1, Len(q) - 1), x) ELSE Append(q, x)

\* deque(maxlen=...).append
DequeAppend(q, x, maxlen) ==
    IF Len(q) >= maxlen THEN Append(Tail(q), x) ELSE Append(q, x)

(***************************************************************************)
(* OnlineValidator.send_test_transaction, as a function of the clock, the  *)
(* endpoint's answer and the time the request takes: whether a request was *)
(* sent, the clock afterwards, and the returned record (<<>> is None).     *)
(***************************************************************************)
\* JSON values of a request body: numbers and lists
JsonNumber(x) == [json |-> "number", value |-> x]
JsonList(items) == [json |-> "list", items |-> items]
\* ndarray.tolist() of a one-dimensional array
ToList(vector) == [i \in DOMAIN vector |-> JsonNumber(vector[i])]

\* the 30 of "shape": [1, 30]: Time, the V columns and Amount
WireFeatureCount == NumV + 2

\* the V2 inference payload with one input
V2Payload(name, data) ==
    [parameters |-> [content_type |-> "np"],
     inputs |-> <<[name |-> name, shape |-> <<1, WireFeatureCount>>,
                   datatype |-> "FP32", data |-> data]>>]

\* a request on the wire and the probability its client read from the
\* response (Malformed when it read none)
Wire(client, payload, read) == [client |-> client, payload |-> payload, read |-> read]
NoWire == Wire("none", <<>>, Malformed)

SendOutcome(transaction_data, model_name, response, latency) ==
    LET transaction_id == <<model_name, now>>
        scaled == PreprocessTransaction(transaction_data)
        failed(log_line) ==
            [sent |-> TRUE, time |-> now + latency, result |-> <<>>, log |-> log_line,
             scaled |-> scaled[1]]
    IN  IF scaled = <<>>
        THEN [sent |-> FALSE, time |-> now, result |-> <<>>, log |-> "error-sending",
              scaled |-> <<>>]
        ELSE IF response.raised
        THEN failed("error-sending")
        ELSE IF response.status = 200
        THEN IF response.prob = Malformed
             THEN failed("error-sending")
             ELSE [sent |-> TRUE, time |-> now + latency,
                   result |-> <<TransactionResult(transaction_id, now + latency, model_name,
                                                  response.prob,
                                                  Get(transaction_data, KeyActualClass),
                                                  scaled[1])>>,
                   log |-> "predicted", scaled |-> scaled[1]]
        ELSE failed("bad-status")

\* self.transaction_buffer.append(transaction_result), when there is one
BufferAfterSend(out) ==
    IF out.result # <<>>
    THEN DequeAppend(transaction_buffer, out.result[1], BufferMaxLen)
    ELSE transaction_buffer

\* mutant: a request that gave no prediction is sent a second time
RecordSendWithRetry(out) ==
    /\ requests' = IF out.sent
                   THEN (IF out.result = <<>> THEN requests + 2 ELSE requests + 1)
                   ELSE requests
    /\ appended' = IF out.result # <<>> THEN Append(appended, out.result[1]) ELSE appended
    /\ wire' = IF out.sent
               THEN Wire("online-validator",
                         V2Payload("fraud_features", ToList(out.scaled)),
                         IF out.result # <<>> THEN out.result[1].prediction_prob
                                              ELSE Malformed)
               ELSE wire

\* the histories after a call with outcome `out`
RecordSend(out) ==
    /\ requests' = IF out.sent THEN requests + 1 ELSE requests
    /\ appended' = IF out.result # <<>> THEN Append(appended, out.result[1]) ELSE appended
    /\ wire' = IF out.sent
               THEN Wire("online-validator",
                         V2Payload("fraud_features", ToList(out.scaled)),
                         IF out.result # <<>> THEN out.result[1].prediction_prob
                                              ELSE Malformed)
               ELSE wire

\* a call of send_test_transaction from outside the validation cycle
SendTestTransaction(transaction_data, model_name, response, latency) ==
    LET out == SendOutcome(transaction_data, model_name, response, latency)
    IN  /\ pc = "api"
        /\ transaction_buffer' = BufferAfterSend(out)
        /\ RecordSend(out)
        /\ now' = out.time
        /\ log' = out.log
        /\ UNCHANGED <<mainVars, objVars, loopVars, cycleVars, performance_history,
                       last_result, last_alerts, feedback_count, last_drift, config_file,
                       config_run, futures, all_results, batch_start, hash_seed>>

(***************************************************************************)
(* OnlineValidator.collect_delayed_feedback                                *)
(***************************************************************************)
FeedbackDue(transaction, current_time) ==
    /\ ~transaction.feedback_received
    /\ transaction.actual_class # NoClass
    /\ current_time - transaction.timestamp > FEEDBACK_DELAY_MINUTES * MsPerMinute

\* mutant: the flag is set on records without a label too
CollectDelayedFeedbackIgnoresLabel ==
    LET due(transaction) ==
            /\ ~transaction.feedback_received
            /\ now - transaction.timestamp > FEEDBACK_DELAY_MINUTES * MsPerMinute
    IN  /\ pc = "api"
        /\ transaction_buffer' =
               [i \in DOMAIN transaction_buffer |->
                   IF due(transaction_buffer[i])
                   THEN [transaction_buffer[i] EXCEPT !.feedback_received = TRUE]
                   ELSE transaction_buffer[i]]
        /\ feedback_count' =
               Cardinality({i \in DOMAIN transaction_buffer : due(transaction_buffer[i])})
        /\ log' = "none"
        /\ UNCHANGED <<mainVars, objVars, loopVars, cycleVars, performance_history, now,
                       last_result, last_alerts, appended, requests, wire, last_drift,
                       config_file, config_run, futures, all_results, batch_start,
                       hash_seed>>

CollectDelayedFeedback ==
    /\ pc = "api"
    /\ transaction_buffer' =
           [i \in DOMAIN transaction_buffer |->
               IF FeedbackDue(transaction_buffer[i], now)
               THEN [transaction_buffer[i] EXCEPT !.feedback_received = TRUE]
               ELSE transaction_buffer[i]]
    /\ feedback_count' =
           Cardinality({i \in DOMAIN transaction_buffer :
                           FeedbackDue(transaction_buffer[i], now)})
    /\ log' = "none"
    /\ UNCHANGED <<mainVars, objVars, loopVars, cycleVars, performance_history, now,
                   last_result, last_alerts, appended, requests, wire, last_drift,
                   config_file, config_run, futures, all_results, batch_start, hash_seed>>

\* time passing between two calls
Tick(delay) ==
    /\ pc = "api"
    /\ now' = now + delay
    /\ log' = "none"
    /\ UNCHANGED <<mainVars, objVars, loopVars, cycleVars, transaction_buffer,
                   performance_history, last_result, last_alerts, feedback_count,
                   appended, requests, wire, last_drift, config_file, config_run, futures,
                   all_results, batch_start, hash_seed>>

(***************************************************************************)
(* sklearn.metrics on label lists (binary average, pos_label = 1,          *)
(* zero_division = 0), from the counts of the window.                      *)
(***************************************************************************)
TruePositives(y_true, y_pred) ==
    Cardinality({i \in DOMAIN y_true : y_true[i] = 1 /\ y_pred[i] = 1})
FalsePositives(y_true, y_pred) ==
    Cardinality({i \in DOMAIN y_true : y_true[i] # 1 /\ y_pred[i] = 1})
FalseNegatives(y_true, y_pred) ==
    Cardinality({i \in DOMAIN y_true : y_true[i] = 1 /\ y_pred[i] # 1})
TrueNegatives(y_true, y_pred) ==
    Cardinality({i \in DOMAIN y_true : y_true[i] # 1 /\ y_pred[i] # 1})

PrecisionScore(y_true, y_pred) ==
    DivOrZero(TruePositives(y_true, y_pred),
              TruePositives(y_true, y_pred) + FalsePositives(y_true, y_pred))

RecallScore(y_true, y_pred) ==
    DivOrZero(TruePositives(y_true, y_pred),
              TruePositives(y_true, y_pred) + FalseNegatives(y_true, y_pred))

\* mutant: the arithmetic mean of precision and recall
F1ScoreArithmeticMean(y_true, y_pred) ==
    RatDiv(RatAdd(DivOrZero(TruePositives(y_true, y_pred),
                            TruePositives(y_true, y_pred) + FalsePositives(y_true, y_pred)),
                  DivOrZero(TruePositives(y_true, y_pred),
                            TruePositives(y_true, y_pred) + FalseNegatives(y_true, y_pred))),
           <<2, 1>>)

\* sklearn: 2 tp / (2 tp + fp + fn)
F1Score(y_true, y_pred) ==
    DivOrZero(2 * TruePositives(y_true, y_pred),
              2 * TruePositives(y_true, y_pred) + FalsePositives(y_true, y_pred)
                  + FalseNegatives(y_true, y_pred))

\* roc_auc_score with both classes present: the share of (fraud, normal)
\* pairs ranked in the right order, a tie counting one half
RocAucScore(y_true, y_prob) ==
    LET pos == {i \in DOMAIN y_true : y_true[i] = 1}
        neg == {i \in DOMAIN y_true : y_true[i] # 1}
        gt == Cardinality({pr \in pos \X neg : y_prob[pr[1]] > y_prob[pr[2]]})
        eq == Cardinality({pr \in pos \X neg : y_prob[pr[1]] = y_prob[pr[2]]})
    IN  <<2 * gt + eq, 2 * Cardinality(pos) * Cardinality(neg)>>

RECURSIVE SortedSeq(_)
SortedSeq(S) ==
    IF S = {} THEN <<>>
    ELSE LET m == CHOOSE x \in S : \A y \in S : x <= y
         IN  <<m>> \o SortedSeq(S \ {m})

\* mutant: only the labels of y_true get a row and a column
ConfusionMatrixTrueLabelsOnly(y_true, y_pred) ==
    LET labels == SortedSeq(Range(y_true))
    IN  [a \in DOMAIN labels |->
            [b \in DOMAIN labels |->
                Cardinality({i \in DOMAIN y_true :
                                y_true[i] = labels[a] /\ y_pred[i] = labels[b]})]]

\* confusion_matrix(y_true, y_pred): one row and one column for each label
\* that occurs in y_true or y_pred, in sorted order
ConfusionMatrix(y_true, y_pred) ==
    LET labels == SortedSeq(Range(y_true) \cup Range(y_pred))
    IN  [a \in DOMAIN labels |->
            [b \in DOMAIN labels |->
                Cardinality({i \in DOMAIN y_true :
                                y_true[i] = labels[a] /\ y_pred[i] = labels[b]})]]

\* numpy's sum over all entries of a matrix
MatrixSum(m) == SumSeq([a \in DOMAIN m |-> SumSeq(m[a])])

RECURSIVE RatSum(_)
RatSum(s) == IF s = <<>> THEN Zero ELSE RatAdd(Head(s), RatSum(Tail(s)))

\* np.mean of a list of fractions: NaN for the empty list
NpMean(s) ==
    IF s = <<>> THEN NaN
    ELSE LET t == RatSum(s) IN <<t[1], t[2] * Len(s)>>

(***************************************************************************)
(* OnlineValidator.calculate_drift_score                                   *)
(***************************************************************************)
CalculateDriftScore(recent_features) ==
    IF recent_features = <<>> \/ baseline_stats = <<>>
    THEN Zero
    ELSE LET n == Len(recent_features)
             colsum(j) == SumSeq([r \in DOMAIN recent_features |-> recent_features[r][j]])
             withStd == SelectSeq([j \in DOMAIN feature_columns |-> j],
                                  LAMBDA j : baseline_stats[1].std[feature_columns[j]] > 0)
             drift_scores ==
                 [k \in DOMAIN withStd |->
                     LET col == feature_columns[withStd[k]]
                     IN  <<Abs(colsum(withStd[k]) - n * baseline_stats[1].mean[col]),
                           n * baseline_stats[1].std[col]>>]
         IN  NpMean(drift_scores)

(***************************************************************************)
(* OnlineValidator.validate_model_performance                              *)
(***************************************************************************)
InWindow(t, model_name, cutoff_time) ==
    /\ t.model_name = model_name
    /\ t.feedback_received
    /\ t.timestamp >= cutoff_time
    /\ t.actual_class # NoClass

ModelTransactions(model_name, lookback_minutes) ==
    SelectSeq(transaction_buffer,
              LAMBDA t : InWindow(t, model_name, now - lookback_minutes * MsPerMinute))

ValidationResult(model_name, model_transactions) ==
    LET y_true == [i \in DOMAIN model_transactions |-> model_transactions[i].actual_class]
        y_pred == [i \in DOMAIN model_transactions |-> model_transactions[i].prediction_class]
        y_prob == [i \in DOMAIN model_transactions |-> model_transactions[i].prediction_prob]
        with_features == SelectSeq(model_transactions, LAMBDA t : t.features # <<>>)
        recent_features == [i \in DOMAIN with_features |-> with_features[i].features]
    IN  [timestamp |-> now,
         model_name |-> model_name,
         precision |-> PrecisionScore(y_true, y_pred),
         recall |-> RecallScore(y_true, y_pred),
         f1_score |-> F1Score(y_true, y_pred),
         auc_score |-> IF Cardinality(Range(y_true)) > 1
                       THEN RocAucScore(y_true, y_prob) ELSE Zero,
         confusion_matrix |-> ConfusionMatrix(y_true, y_pred),
         sample_size |-> Len(model_transactions),
         drift_score |-> CalculateDriftScore(recent_features)]

\* the returned value (<<>> is None) and the message logged
ValidateOutcome(model_name, lookback_minutes) ==
    LET model_transactions == ModelTransactions(model_name, lookback_minutes)
    IN  IF Len(model_transactions) < MinSampleSize
        THEN [result |-> <<>>, log |-> "insufficient-samples"]
        ELSE IF model_name \notin DOMAIN performance_history
        THEN [result |-> <<>>, log |-> "error-calculating-metrics"]
        ELSE [result |-> <<ValidationResult(model_name, model_transactions)>>,
              log |-> "none"]

\* mutant: the history keeps every result
StoreResultUnbounded(history, model_name, out) ==
    IF out.result # <<>>
    THEN [history EXCEPT ![model_name] = Append(@, out.result[1])]
    ELSE history

\* self.performance_history[model_name].append(validation_result)
StoreResult(history, model_name, out) ==
    IF out.result # <<>>
    THEN [history EXCEPT ![model_name] = DequeAppend(@, out.result[1], HistoryMaxLen)]
    ELSE history

\* a call of validate_model_performance from outside the validation cycle
ValidateModelPerformance(model_name, lookback_minutes) ==
    LET out == ValidateOutcome(model_name, lookback_minutes)
    IN  /\ pc = "api"
        /\ performance_history' = StoreResult(performance_history, model_name, out)
        /\ last_result' = [called |-> TRUE, model_name |-> model_name,
                           lookback_minutes |-> lookback_minutes, value |-> out.result]
        /\ log' = out.log
        /\ UNCHANGED <<mainVars, objVars, loopVars, cycleVars, transaction_buffer, now,
                       last_alerts, feedback_count, appended, requests, wire, last_drift,
                       config_file, config_run, futures, all_results, batch_start,
                       hash_seed>>

(***************************************************************************)
(* OnlineValidator.check_performance_alerts: the alerts, by their kind     *)
(***************************************************************************)
\* mutant: the AUC threshold is checked without the AUC > 0 guard
CheckPerformanceAlertsNoAucGuard(result) ==
    (IF RatLt(result.precision, MIN_PRECISION) THEN <<"LOW PRECISION">> ELSE <<>>)
    \o (IF RatLt(result.recall, MIN_RECALL) THEN <<"LOW RECALL">> ELSE <<>>)
    \o (IF RatLt(result.f1_score, MIN_F1) THEN <<"LOW F1-SCORE">> ELSE <<>>)
    \o (IF RatLt(result.auc_score, MIN_AUC) THEN <<"LOW AUC">> ELSE <<>>)
    \o (IF RatLt(MAX_DRIFT_SCORE, result.drift_score) THEN <<"HIGH DRIFT">> ELSE <<>>)

\* mutant: a metric equal to its minimum raises the alert too
CheckPerformanceAlertsInclusive(result) ==
    (IF RatLe(result.precision, MIN_PRECISION) THEN <<"LOW PRECISION">> ELSE <<>>)
    \o (IF RatLe(result.recall, MIN_RECALL) THEN <<"LOW RECALL">> ELSE <<>>)
    \o (IF RatLe(result.f1_score, MIN_F1) THEN <<"LOW F1-SCORE">> ELSE <<>>)
    \o (IF RatLt(Zero, result.auc_score) /\ RatLe(result.auc_score, MIN_AUC)
        THEN <<"LOW AUC">> ELSE <<>>)
    \o (IF RatLt(MAX_DRIFT_SCORE, result.drift_score) THEN <<"HIGH DRIFT">> ELSE <<>>)

CheckPerformanceAlerts(result) ==
    (IF RatLt(result.precision, MIN_PRECISION) THEN <<"LOW PRECISION">> ELSE <<>>)
    \o (IF RatLt(result.recall, MIN_RECALL) THEN <<"LOW RECALL">> ELSE <<>>)
    \o (IF RatLt(result.f1_score, MIN_F1) THEN <<"LOW F1-SCORE">> ELSE <<>>)
    \o (IF RatLt(Zero, result.auc_score) /\ RatLt(result.auc_score, MIN_AUC)
        THEN <<"LOW AUC">> ELSE <<>>)
    \o (IF RatLt(MAX_DRIFT_SCORE, result.drift_score) THEN <<"HIGH DRIFT">> ELSE <<>>)

\* a call of check_performance_alerts on the last result returned
CheckAlerts ==
    /\ pc = "api"
    /\ last_result.called
    /\ last_result.value # <<>>
    /\ last_alerts' = [called |-> TRUE, value |-> CheckPerformanceAlerts(last_result.value[1])]
    /\ log' = "none"
    /\ UNCHANGED <<mainVars, objVars, loopVars, cycleVars, transaction_buffer,
                   performance_history, now, last_result, feedback_count, appended,
                   requests, wire, last_drift, config_file, config_run, futures,
                   all_results, batch_start, hash_seed>>

(***************************************************************************)
(* scripts/update-model-config.py.  A URI is held as the parts that        *)
(* uri.split('/') gives; <<>> is an option that was not given.  The        *)
(* weights are written to the file as str(weight).                         *)
(***************************************************************************)
RECURSIVE Digits(_)
Digits(n) == IF n < 10 THEN <<n>> ELSE Digits(n \div 10) \o <<n % 10>>

\* str(n) of an integer: its sign and its decimal digits
Str(n) == [negative |-> n < 0, digits |-> Digits(Abs(n))]

NoUri == <<>>
UriArtifacts == <<"s3:", "", "mlflow", "artifacts">>
UriModels == <<"s3:", "", "mlflow", "models">>
UriNoScheme == <<"http:", "", "mlflow", "artifacts">>
UriBucketOnly == <<"s3:", "", "mlflow">>

\* validate_s3_uri: uri.startswith('s3://') and len(uri.split('/')) >= 4
ValidateS3Uri(uri) ==
    /\ Len(uri) >= 3 /\ uri[1] = "s3:" /\ uri[2] = ""
    /\ Len(uri) >= 4

ConfigFile(exists, v1_uri, v2_uri, baseline_weight, candidate_weight) ==
    [exists |-> exists,
     data |-> [fraud_v1_storage_uri |-> v1_uri,
               fraud_v2_storage_uri |-> v2_uri,
               traffic_split_baseline |-> Str(baseline_weight),
               traffic_split_candidate |-> Str(candidate_weight)]]
DefaultConfigFile == ConfigFile(TRUE, UriArtifacts, UriArtifacts, 80, 20)
MissingConfigFile == [DefaultConfigFile EXCEPT !.exists = FALSE]

ConfigArgs(v1_uri, v2_uri, baseline_weight, candidate_weight, dry_run) ==
    [v1_uri |-> v1_uri, v2_uri |-> v2_uri, baseline_weight |-> baseline_weight,
     candidate_weight |-> candidate_weight, dry_run |-> dry_run]
NoConfigRun == [ran |-> FALSE, args |-> ConfigArgs(NoUri, NoUri, 80, 20, FALSE),
                exit_code |-> NoExit]

\* update_model_config: the file it writes, the file having been found
UpdateModelConfig(file, v1_uri, v2_uri, baseline_weight, candidate_weight) ==
    [file EXCEPT
        !.data.fraud_v1_storage_uri = IF v1_uri # NoUri THEN v1_uri ELSE @,
        !.data.fraud_v2_storage_uri = IF v2_uri # NoUri THEN v2_uri ELSE @,
        !.data.traffic_split_baseline = Str(baseline_weight),
        !.data.traffic_split_candidate = Str(candidate_weight)]

\* main's checks before anything is written (lines 108-123)
ConfigArgsRejected(a) ==
    \/ a.v1_uri # NoUri /\ ~ValidateS3Uri(a.v1_uri)
    \/ a.v2_uri # NoUri /\ ~ValidateS3Uri(a.v2_uri)
    \/ a.baseline_weight + a.candidate_weight # 100
    \/ a.baseline_weight < 0
    \/ a.candidate_weight < 0

\* mutant: main leaves the weights unchecked, as update_model_config does
UpdateModelConfigMainUnchecked(a) ==
    LET written == ~a.dry_run /\ config_file.exists
    IN  /\ pc = "config"
        /\ config_file' =
               IF written
               THEN UpdateModelConfig(config_file, a.v1_uri, a.v2_uri, a.baseline_weight,
                                      a.candidate_weight)
               ELSE config_file
        /\ config_run' = [ran |-> TRUE, args |-> a,
                          exit_code |-> IF a.dry_run \/ written THEN 0 ELSE 1]
        /\ UNCHANGED <<mainVars, objVars, loopVars, cycleVars, transaction_buffer,
                       performance_history, now, last_result, last_alerts, last_drift,
                       feedback_count, appended, requests, wire, log, futures,
                       all_results, batch_start, hash_seed>>

\* one run of update-model-config.py with the arguments a
UpdateModelConfigMain(a) ==
    LET written == ~ConfigArgsRejected(a) /\ ~a.dry_run /\ config_file.exists
    IN  /\ pc = "config"
        /\ config_file' =
               IF written
               THEN UpdateModelConfig(config_file, a.v1_uri, a.v2_uri, a.baseline_weight,
                                      a.candidate_weight)
               ELSE config_file
        /\ config_run' = [ran |-> TRUE, args |-> a,
                          exit_code |-> IF ConfigArgsRejected(a) THEN 1
                                        ELSE IF a.dry_run \/ written THEN 0 ELSE 1]
        /\ UNCHANGED <<mainVars, objVars, loopVars, cycleVars, transaction_buffer,
                       performance_history, now, last_result, last_alerts, last_drift,
                       feedback_count, appended, requests, wire, log, futures,
                       all_results, batch_start, hash_seed>>

(***************************************************************************)
(* The object after OnlineValidator() has returned, the training file      *)
(* being `ref`: the state the methods are called in.                       *)
(***************************************************************************)
NotCalled == [called |-> FALSE, model_name |-> Baseline, lookback_minutes |-> 0,
              value |-> <<>>]
NoAlerts == [called |-> FALSE, value |-> <<>>]
NoDrift == [called |-> FALSE, recent_features |-> <<>>, value |-> Zero]
DefaultArgs == [single_cycle |-> FALSE, batch_size |-> 0, duration |-> 0, interval |-> 0]

\* no validation cycle is running: its locals do not exist
NoReport == [compared |-> FALSE, recall_met |-> FALSE, precision_stable |-> FALSE]
NoCycle ==
    /\ batch_size = 0
    /\ test_transactions = <<>>
    /\ idx = 0
    /\ baseline_results = <<>>
    /\ candidate_results = <<>>
    /\ baseline_result = <<>>
    /\ candidate_result = <<>>
    /\ baseline_alerts = <<>>
    /\ candidate_alerts = <<>>
    /\ report = NoReport
    /\ calls = {}

Constructed(ref) ==
    /\ ref_data = ref
    /\ feature_columns = SelectFeatureColumns(ref.columns)
    /\ scaler = FitScaler(ref, SelectFeatureColumns(ref.columns))
    /\ baseline_stats = BaselineStats(ref, SelectFeatureColumns(ref.columns))
    /\ transaction_buffer = <<>>
    /\ performance_history = [m \in ConfiguredModels |-> <<>>]

InitApi ==
    /\ pc = "api"
    /\ exit_code = NoExit
    /\ args = DefaultArgs
    /\ holdout = HoldoutGood
    /\ served = [m \in ConfiguredModels |-> "accurate"]
    /\ Constructed(RefGood)
    /\ now = 0
    /\ start_time = 0
    /\ cycle_count = 0
    /\ NoCycle
    /\ last_result = NotCalled
    /\ last_alerts = NoAlerts
    /\ feedback_count = 0
    /\ appended = <<>>
    /\ requests = 0
    /\ wire = NoWire
    /\ last_drift = NoDrift
    /\ hash_seed = 0
    /\ batch_start = 0
    /\ all_results = <<>>
    /\ futures = <<>>
    /\ config_run = NoConfigRun
    /\ config_file = DefaultConfigFile
    /\ log = "none"

(***************************************************************************)
(* SpecBuffer: calls of send_test_transaction and collect_delayed_feedback *)
(* on one validator, each request taking 1 ms.                             *)
(***************************************************************************)
NextBuffer ==
    \/ /\ requests < MaxAppends
       /\ \E response \in {Http(200, 90), Http(500, Malformed)} :
              SendTestTransaction(FraudTx, Baseline, response, 1)
    \/ /\ now + (FEEDBACK_DELAY_MINUTES + 1) * MsPerMinute <= MaxClockMinutes * MsPerMinute
       /\ Tick((FEEDBACK_DELAY_MINUTES + 1) * MsPerMinute)
    \/ CollectDelayedFeedback

SpecBuffer == InitApi /\ [][NextBuffer]_vars

Min(a, b) == IF a < b THEN a ELSE b

Unflagged(t) == [t EXCEPT !.feedback_received = FALSE]

\* C1: the buffer never holds more than BufferMaxLen records, and after k
\* appends it holds exactly the min(k, BufferMaxLen) most recently appended
\* records, in the order they were appended.
C1_BufferHoldsLatest ==
    /\ Len(transaction_buffer) <= BufferMaxLen
    /\ Len(transaction_buffer) = Min(Len(appended), BufferMaxLen)
    /\ \A i \in DOMAIN transaction_buffer :
           Unflagged(transaction_buffer[i])
               = appended[Len(appended) - Len(transaction_buffer) + i]

\* two more appends than the capacity: the two oldest records are gone
C1_Witness ==
    /\ Len(appended) = BufferMaxLen + 2
    /\ Len(transaction_buffer) = BufferMaxLen
    /\ Unflagged(transaction_buffer[1]) = appended[3]
    /\ appended[1] # appended[3]

(***************************************************************************)
(* The hand-written metrics of the replay analysis (from the four counts   *)
(* unpacked from its confusion matrix) and of the traffic simulation.      *)
(***************************************************************************)
HandWrittenF1(precision, recall) ==
    IF RatLt(Zero, RatAdd(precision, recall))
    THEN RatDiv(RatMul(<<2, 1>>, RatMul(precision, recall)), RatAdd(precision, recall))
    ELSE Zero

ReplayMetrics(tn_overall, fp_overall, fn_overall, tp_overall) ==
    LET precision == DivOrZero(tp_overall, tp_overall + fp_overall)
        recall == DivOrZero(tp_overall, tp_overall + fn_overall)
    IN  [precision |-> precision, recall |-> recall,
         specificity |-> DivOrZero(tn_overall, tn_overall + fp_overall),
         f1_score |-> HandWrittenF1(precision, recall)]

SimulateMetrics(true_positives, false_positives, false_negatives) ==
    LET precision == DivOrZero(true_positives, true_positives + false_positives)
        recall == DivOrZero(true_positives, true_positives + false_negatives)
    IN  [precision |-> precision, recall |-> recall,
         f1_score |-> HandWrittenF1(precision, recall)]

(***************************************************************************)
(* SpecEval: one call of the evaluator, and of the alert checker on its    *)
(* result, on a validator whose buffer holds any MaxEvalRecords or fewer   *)
(* records of the kinds below, oldest first.  The clock stands at          *)
(* EvalClock.                                                              *)
(***************************************************************************)
EvalClock == 120 * MsPerMinute

EvalRecord(model_name, actual_class, prediction_prob, feedback_received, age) ==
    [TransactionResult(<<model_name, EvalClock - age>>, EvalClock - age, model_name,
                       prediction_prob, actual_class, [j \in 1..(NumV + 2) |-> 2])
        EXCEPT !.feedback_received = feedback_received]

EvalRecords ==
    << EvalRecord(Baseline, 0, 20, TRUE, MsPerMinute + 1),   \* just older than one minute
       EvalRecord(Baseline, 0, 20, TRUE, MsPerMinute),       \* exactly one minute old
       EvalRecord(Baseline, 1, 90, TRUE, 0),                 \* fraud, caught
       EvalRecord(Baseline, 1, 20, TRUE, 0),                 \* fraud, missed
       EvalRecord(Baseline, 1, 50, TRUE, 0),                 \* fraud, missed at 0.5
       EvalRecord(Baseline, 0, 90, TRUE, 0),                 \* false alarm
       EvalRecord(Baseline, 0, 20, TRUE, 0),                 \* normal, passed
       EvalRecord(Baseline, 1, 90, FALSE, 0),                \* no feedback yet
       EvalRecord(Baseline, NoClass, 90, TRUE, 0),           \* no label
       EvalRecord(Candidate, 1, 90, TRUE, 0),                \* the other model
       EvalRecord(Shadow, 1, 90, TRUE, 0) >>                 \* a model without a history

EvalBuffers ==
    UNION {{[i \in 1..n |-> EvalRecords[k[i]]] :
               k \in {f \in [1..n -> DOMAIN EvalRecords] :
                         \A i \in 1..n : i < n => f[i] <= f[i + 1]}} :
           n \in 0..MaxEvalRecords}

InitEval ==
    /\ pc = "api"
    /\ exit_code = NoExit
    /\ args = DefaultArgs
    /\ holdout = HoldoutGood
    /\ served = [m \in ConfiguredModels |-> "accurate"]
    /\ ref_data = RefGood
    /\ feature_columns = SelectFeatureColumns(RefGood.columns)
    /\ scaler = FitScaler(RefGood, SelectFeatureColumns(RefGood.columns))
    /\ baseline_stats = BaselineStats(RefGood, SelectFeatureColumns(RefGood.columns))
    /\ transaction_buffer \in EvalBuffers
    /\ performance_history = [m \in ConfiguredModels |-> <<>>]
    /\ now = EvalClock
    /\ start_time = 0
    /\ cycle_count = 0
    /\ NoCycle
    /\ last_result = NotCalled
    /\ last_alerts = NoAlerts
    /\ feedback_count = 0
    /\ appended = [i \in DOMAIN transaction_buffer |-> Unflagged(transaction_buffer[i])]
    /\ requests = Len(transaction_buffer)
    /\ wire = NoWire
    /\ last_drift = NoDrift
    /\ hash_seed = 0
    /\ batch_start = 0
    /\ all_results = <<>>
    /\ futures = <<>>
    /\ config_run = NoConfigRun
    /\ config_file = DefaultConfigFile
    /\ log = "none"

NextEval ==
    \/ /\ ~last_result.called
       /\ \E model_name \in {Baseline, Candidate, Shadow}, lookback_minutes \in {1, 60} :
              ValidateModelPerformance(model_name, lookback_minutes)
    \/ /\ ~last_alerts.called
       /\ CheckAlerts

SpecEval == InitEval /\ [][NextEval]_vars

\* the records of the buffer that the last evaluator call had to select:
\* of its model, labeled, with feedback, no older than its window
Selected ==
    {i \in DOMAIN transaction_buffer :
        /\ transaction_buffer[i].model_name = last_result.model_name
        /\ transaction_buffer[i].actual_class \in {0, 1}
        /\ transaction_buffer[i].feedback_received = TRUE
        /\ now - transaction_buffer[i].timestamp
               <= last_result.lookback_minutes * MsPerMinute}

SelectedWith(actual_class, prediction_class) ==
    Cardinality({i \in Selected :
                    /\ transaction_buffer[i].actual_class = actual_class
                    /\ transaction_buffer[i].prediction_class = prediction_class})

HasResult == last_result.called /\ last_result.value # <<>>

\* C2: the evaluator returns None and stores nothing when fewer than
\* MinSampleSize records of the model are labeled, feedback-received and in
\* the window, and returns a result when there are MinSampleSize or more.
C2_NoneIffBelowMinimum ==
    last_result.called =>
        /\ Cardinality(Selected) < MinSampleSize =>
               /\ last_result.value = <<>>
               /\ \A m \in DOMAIN performance_history : performance_history[m] = <<>>
        /\ Cardinality(Selected) >= MinSampleSize => last_result.value # <<>>

InUnitInterval(x) == x[2] > 0 /\ 0 <= x[1] /\ x[1] <= x[2]

\* C3: in every result the confusion-matrix entries are non-negative
\* integers summing to sample_size, sample_size is the number of records
\* selected and at least MinSampleSize, and precision, recall and F1 lie
\* in [0, 1].
C3_ResultWellFormed ==
    HasResult =>
        LET r == last_result.value[1]
        IN  /\ \A a \in DOMAIN r.confusion_matrix :
                  \A b \in DOMAIN r.confusion_matrix[a] :
                      r.confusion_matrix[a][b] \in Nat
            /\ MatrixSum(r.confusion_matrix) = r.sample_size
            /\ r.sample_size = Cardinality(Selected)
            /\ r.sample_size >= MinSampleSize
            /\ InUnitInterval(r.precision)
            /\ InUnitInterval(r.recall)
            /\ InUnitInterval(r.f1_score)

\* a result over a window with all four kinds of outcome
C3_Witness ==
    /\ HasResult
    /\ Len(last_result.value[1].confusion_matrix) = 2
    /\ \A a \in 1..2 : \A b \in 1..2 : last_result.value[1].confusion_matrix[a][b] > 0

\* the reference formulas over the counts of the window
RefPrecision(tp, fp) == IF tp + fp = 0 THEN Zero ELSE <<tp, tp + fp>>
RefRecall(tp, fn) == IF tp + fn = 0 THEN Zero ELSE <<tp, tp + fn>>
RefF1(tp, fp, fn) ==
    IF RefPrecision(tp, fp)[1] = 0 /\ RefRecall(tp, fn)[1] = 0
    THEN Zero
    ELSE \* the harmonic mean 2 / (1/p + 1/r)
         RatDiv(<<2, 1>>, RatAdd(RatDiv(<<1, 1>>, RefPrecision(tp, fp)),
                                 RatDiv(<<1, 1>>, RefRecall(tp, fn))))

SingleClassWindow ==
    \/ \A i \in Selected : transaction_buffer[i].actual_class = 0
    \/ \A i \in Selected : transaction_buffer[i].actual_class = 1

\* C6: when every label of the evaluated window is of one class the result's
\* AUC is exactly 0, and the alert checker gives no LOW AUC alert for it.
C6_SingleClassAucZeroNoAlert ==
    (HasResult /\ SingleClassWindow) =>
        /\ last_result.value[1].auc_score = Zero
        /\ last_alerts.called => "LOW AUC" \notin Range(last_alerts.value)

\* a single-class result whose other metrics do raise alerts
C6_Witness ==
    /\ HasResult
    /\ SingleClassWindow
    /\ last_alerts.called
    /\ "LOW RECALL" \in Range(last_alerts.value)

(***************************************************************************)
(* SpecAlerts: one call of check_performance_alerts on a result whose      *)
(* metrics are drawn from values below, at and above each threshold.       *)
(***************************************************************************)
AlertInputs ==
    [timestamp : {EvalClock},
     model_name : {Baseline},
     precision : {Zero, <<84, 100>>, <<17, 20>>, <<1, 1>>},
     recall : {<<74, 100>>, <<3, 4>>, <<1, 1>>},
     f1_score : {<<79, 100>>, <<4, 5>>, <<1, 1>>},
     auc_score : {Zero, <<1, 100>>, <<84, 100>>, <<17, 20>>, <<1, 1>>},
     confusion_matrix : {<<<<10, 0>>, <<0, 10>>>>},
     sample_size : {20},
     drift_score : {Zero, <<3, 20>>, <<16, 100>>, <<2, 1>>, NaN}]

InitAlerts ==
    /\ pc = "api"
    /\ exit_code = NoExit
    /\ args = DefaultArgs
    /\ holdout = HoldoutGood
    /\ served = [m \in ConfiguredModels |-> "accurate"]
    /\ ref_data = RefGood
    /\ feature_columns = SelectFeatureColumns(RefGood.columns)
    /\ scaler = FitScaler(RefGood, SelectFeatureColumns(RefGood.columns))
    /\ baseline_stats = BaselineStats(RefGood, SelectFeatureColumns(RefGood.columns))
    /\ transaction_buffer = <<EvalRecords[3]>>
    /\ \E result \in AlertInputs :
           /\ last_result = [called |-> TRUE, model_name |-> Baseline,
                             lookback_minutes |-> 60, value |-> <<result>>]
           /\ performance_history = [m \in ConfiguredModels |->
                                        IF m = Baseline THEN <<result>> ELSE <<>>]
    /\ now = EvalClock
    /\ start_time = 0
    /\ cycle_count = 0
    /\ NoCycle
    /\ last_alerts = NoAlerts
    /\ feedback_count = 0
    /\ appended = <<Unflagged(EvalRecords[3])>>
    /\ requests = 1
    /\ wire = NoWire
    /\ last_drift = NoDrift
    /\ hash_seed = 0
    /\ batch_start = 0
    /\ all_results = <<>>
    /\ futures = <<>>
    /\ config_run = NoConfigRun
    /\ config_file = DefaultConfigFile
    /\ log = "none"

NextAlerts == CheckAlerts

SpecAlerts == InitAlerts /\ [][NextAlerts]_vars

\* the alert kinds a result must raise, from the thresholds as numbers
ExpectedAlerts(r) ==
    {k \in {"LOW PRECISION", "LOW RECALL", "LOW F1-SCORE", "LOW AUC", "HIGH DRIFT"} :
        \/ k = "LOW PRECISION" /\ r.precision[1] * 100 < 85 * r.precision[2]
        \/ k = "LOW RECALL" /\ r.recall[1] * 100 < 75 * r.recall[2]
        \/ k = "LOW F1-SCORE" /\ r.f1_score[1] * 100 < 80 * r.f1_score[2]
        \/ k = "LOW AUC" /\ r.auc_score[1] > 0 /\ r.auc_score[1] * 100 < 85 * r.auc_score[2]
        \/ k = "HIGH DRIFT" /\ r.drift_score[2] > 0
                            /\ r.drift_score[1] * 100 > 15 * r.drift_score[2]}

\* C5: check_performance_alerts returns exactly one string for each violated
\* threshold and nothing else (a value equal to its threshold violates
\* nothing), and the call changes neither the result nor the buffer nor the
\* history.
C5_AlertsExactlyViolations ==
    /\ [](last_alerts.called =>
            /\ Range(last_alerts.value) = ExpectedAlerts(last_result.value[1])
            /\ Len(last_alerts.value) = Cardinality(ExpectedAlerts(last_result.value[1])))
    /\ [][last_alerts' # last_alerts =>
            UNCHANGED <<last_result, transaction_buffer, performance_history>>]_vars

\* every metric exactly at its threshold: no alert
C5_Witness ==
    /\ last_alerts.called
    /\ last_alerts.value = <<>>
    /\ last_result.value[1].precision = <<17, 20>>
    /\ last_result.value[1].recall = <<3, 4>>
    /\ last_result.value[1].f1_score = <<4, 5>>
    /\ last_result.value[1].auc_score = <<17, 20>>
    /\ last_result.value[1].drift_score = <<3, 20>>

(***************************************************************************)
(* The program: main, the constructor, run_validation_cycle and            *)
(* run_continuous_validation.  DefaultCycleBatch stands for the default    *)
(* batch_size=100 of run_validation_cycle; MaxFailures bounds how many     *)
(* requests of one run the serving side fails.                             *)
(***************************************************************************)
DefaultCycleBatch == 4
MaxFailures == 1

MsPerSecond == 1000
\* mutant: the scoring loop does not pause between two transactions
NoScorePause == 0 * MsPerSecond
\* time.sleep(0.05) after each transaction of a cycle
ScorePauseMs == 50
\* how long the serving side takes to answer one request
RequestLatencyMs == 5

\* the command lines main is started with
SingleCycleArgs(n) ==
    [single_cycle |-> TRUE, batch_size |-> n, duration |-> 3600, interval |-> 300]
ContinuousArgs(n, duration, interval) ==
    [single_cycle |-> FALSE, batch_size |-> n, duration |-> duration, interval |-> interval]
ArgSets ==
    {SingleCycleArgs(3), SingleCycleArgs(DefaultCycleBatch),
     ContinuousArgs(3, 0, 1), ContinuousArgs(3, 2, 1)}

RefFiles == {RefMissing, RefGood, RefExtraColumn}
HoldoutFiles == {HoldoutUnreadable, HoldoutEmpty, HoldoutGood}

\* the deployed classifiers: one that separates the fraud rows of the
\* holdout from the normal ones, and one that flags nothing
ServedBehaviours == {"accurate", "blind"}
ServedProb(behaviour, transaction_data) ==
    IF behaviour = "accurate" /\ transaction_data[ColAmount] > 4 THEN 90 ELSE 20

\* the deployments of a run: the candidate separates the classes, the
\* baseline either does too or misses the fraud rows of the holdout
Deployments ==
    {[m \in ConfiguredModels |-> IF m = Baseline THEN b ELSE "accurate"] :
        b \in ServedBehaviours}

\* the responses the serving side can give to one request of the cycle
Responses(model_name, transaction_data) ==
    {Http(200, ServedProb(served[model_name], transaction_data))}
    \cup (IF requests - Len(appended) < MaxFailures
          THEN {NetError, Http(500, Malformed), Http(200, Malformed)}
          ELSE {})

(***************************************************************************)
(* OnlineValidator.generate_test_transactions: the lists it can return.    *)
(* Every exception inside it is caught and gives the empty list.           *)
(***************************************************************************)
\* mutant: fraud rows are sampled with replacement up to the requested number
GenerateTestTransactionsFillsFraud(h, num_transactions) ==
    IF ~h.readable
    THEN {<<>>}
    ELSE LET rows == h.rows
             fraud_samples == (num_transactions * 3) \div 10
             normal_samples == num_transactions - fraud_samples
             fraud_df == {i \in DOMAIN rows : rows[i][ColClass] = 1}
             normal_df == {i \in DOMAIN rows : rows[i][ColClass] = 0}
             fraud_taken == fraud_samples
             replace == TRUE
             total == fraud_taken + normal_samples
             \* the shuffled concatenation of the two samples, by row index
             combined ==
                 {f \in [1..total -> DOMAIN rows] :
                     /\ Cardinality({i \in 1..total : f[i] \in fraud_df}) = fraud_taken
                     /\ \A i, j \in 1..total :
                            (i # j /\ f[i] = f[j]) => replace}
         IN  IF (normal_df = {} /\ normal_samples > 0) \/ total = 0
             THEN {<<>>}
             ELSE {[i \in 1..total |-> MakeTransaction(rows[f[i]])] : f \in combined}

GenerateTestTransactions(h, num_transactions) ==
    IF ~h.readable
    THEN {<<>>}
    ELSE LET rows == h.rows
             fraud_samples == (num_transactions * 3) \div 10
             normal_samples == num_transactions - fraud_samples
             fraud_df == {i \in DOMAIN rows : rows[i][ColClass] = 1}
             normal_df == {i \in DOMAIN rows : rows[i][ColClass] = 0}
             fraud_taken == IF Cardinality(fraud_df) >= fraud_samples
                            THEN fraud_samples
                            ELSE Cardinality(fraud_df)
             replace == Cardinality(normal_df) < normal_samples
             total == fraud_taken + normal_samples
             \* the shuffled concatenation of the two samples, by row index
             combined ==
                 {f \in [1..total -> DOMAIN rows] :
                     /\ Cardinality({i \in 1..total : f[i] \in fraud_df}) = fraud_taken
                     /\ \A i, j \in 1..total :
                            (i # j /\ f[i] = f[j]) => (f[i] \in normal_df /\ replace)}
         IN  IF (normal_df = {} /\ normal_samples > 0) \/ total = 0
             THEN {<<>>}
             ELSE {[i \in 1..total |-> MakeTransaction(rows[f[i]])] : f \in combined}

(***************************************************************************)
(* main                                                                    *)
(***************************************************************************)
Init ==
    /\ pc = "main"
    /\ exit_code = NoExit
    /\ args \in ArgSets
    /\ ref_data \in RefFiles
    /\ holdout = HoldoutGood
    /\ served \in Deployments
    /\ feature_columns = <<>>
    /\ scaler = <<>>
    /\ baseline_stats = <<>>
    /\ transaction_buffer = <<>>
    /\ performance_history = <<>>
    /\ now = 0
    /\ start_time = 0
    /\ cycle_count = 0
    /\ NoCycle
    /\ last_result = NotCalled
    /\ last_alerts = NoAlerts
    /\ feedback_count = 0
    /\ appended = <<>>
    /\ requests = 0
    /\ wire = NoWire
    /\ last_drift = NoDrift
    /\ hash_seed = 0
    /\ batch_start = 0
    /\ all_results = <<>>
    /\ futures = <<>>
    /\ config_run = NoConfigRun
    /\ config_file = DefaultConfigFile
    /\ log = "none"

\* mutant: a failed setup is logged and the run goes on
MainIgnoresSetupFailure ==
    /\ pc = "main"
    /\ feature_columns' = SelectFeatureColumns(ref_data.columns)
    /\ scaler' = FitScaler(ref_data, SelectFeatureColumns(ref_data.columns))
    /\ baseline_stats' = BaselineStats(ref_data, SelectFeatureColumns(ref_data.columns))
    /\ performance_history' = [m \in ConfiguredModels |-> <<>>]
    /\ pc' = "run"
    /\ log' = "none"
    /\ UNCHANGED <<exit_code, args, ref_data, holdout, served, transaction_buffer, now,
                   loopVars, cycleVars, last_result, last_alerts, feedback_count,
                   appended, requests, wire, last_drift, config_file, config_run, futures,
                   all_results, batch_start, hash_seed>>

\* main up to the end of OnlineValidator(): the constructor raises when the
\* training file cannot be read, and main returns 1
Main ==
    /\ pc = "main"
    /\ IF ref_data.readable
       THEN /\ feature_columns' = SelectFeatureColumns(ref_data.columns)
            /\ scaler' = FitScaler(ref_data, SelectFeatureColumns(ref_data.columns))
            /\ baseline_stats' = BaselineStats(ref_data, SelectFeatureColumns(ref_data.columns))
            /\ performance_history' = [m \in ConfiguredModels |-> <<>>]
            /\ pc' = "run"
            /\ log' = "none"
            /\ UNCHANGED exit_code
       ELSE /\ pc' = "exit"
            /\ exit_code' = 1
            /\ log' = "validation-failed"
            /\ UNCHANGED <<objVars, performance_history>>
    /\ UNCHANGED <<args, ref_data, holdout, served, transaction_buffer, now, loopVars,
                   cycleVars, last_result, last_alerts, feedback_count, appended,
                   requests, wire, last_drift, config_file, config_run, futures,
                   all_results, batch_start, hash_seed>>

\* validator.run_validation_cycle(args.batch_size)
RunSingleCycle ==
    /\ pc = "run"
    /\ args.single_cycle
    /\ pc' = "cycle"
    /\ batch_size' = args.batch_size
    /\ log' = "none"
    /\ UNCHANGED <<exit_code, args, ref_data, holdout, served, objVars, transaction_buffer,
                   performance_history, now, loopVars, test_transactions, idx,
                   baseline_results, candidate_results, baseline_result, candidate_result,
                   baseline_alerts, candidate_alerts, report, calls, last_result,
                   last_alerts, feedback_count, appended, requests, wire, last_drift,
                   config_file, config_run, futures, all_results, batch_start, hash_seed>>

\* validator.run_continuous_validation(args.duration, args.interval), up to
\* the loop
RunContinuous ==
    /\ pc = "run"
    /\ ~args.single_cycle
    /\ start_time' = now
    /\ cycle_count' = 0
    /\ pc' = "loop"
    /\ log' = "none"
    /\ UNCHANGED <<exit_code, args, ref_data, holdout, served, objVars, transaction_buffer,
                   performance_history, now, cycleVars, last_result, last_alerts,
                   feedback_count, appended, requests, wire, last_drift, config_file,
                   config_run, futures, all_results, batch_start, hash_seed>>

\* mutant: a cycle is started when the duration has just elapsed
LoopTestInclusive ==
    /\ pc = "loop"
    /\ IF now - start_time <= args.duration * MsPerSecond
       THEN /\ cycle_count' = cycle_count + 1
            /\ batch_size' = DefaultCycleBatch
            /\ pc' = "cycle"
            /\ log' = "none"
            /\ UNCHANGED exit_code
       ELSE /\ pc' = "exit"
            /\ exit_code' = 0
            /\ log' = "continuous-validation-completed"
            /\ UNCHANGED <<cycle_count, batch_size>>
    /\ UNCHANGED <<args, ref_data, holdout, served, objVars, transaction_buffer,
                   performance_history, now, start_time, test_transactions, idx,
                   baseline_results, candidate_results, baseline_result, candidate_result,
                   baseline_alerts, candidate_alerts, report, calls, last_result,
                   last_alerts, feedback_count, appended, requests, wire, last_drift,
                   config_file, config_run, futures, all_results, batch_start, hash_seed>>

\* while time.time() - start_time < duration_seconds: the next cycle, called
\* without a batch size, or the end of the loop and of main
LoopTest ==
    /\ pc = "loop"
    /\ IF now - start_time < args.duration * MsPerSecond
       THEN /\ cycle_count' = cycle_count + 1
            /\ batch_size' = DefaultCycleBatch
            /\ pc' = "cycle"
            /\ log' = "none"
            /\ UNCHANGED exit_code
       ELSE /\ pc' = "exit"
            /\ exit_code' = 0
            /\ log' = "continuous-validation-completed"
            /\ UNCHANGED <<cycle_count, batch_size>>
    /\ UNCHANGED <<args, ref_data, holdout, served, objVars, transaction_buffer,
                   performance_history, now, start_time, test_transactions, idx,
                   baseline_results, candidate_results, baseline_result, candidate_result,
                   baseline_alerts, candidate_alerts, report, calls, last_result,
                   last_alerts, feedback_count, appended, requests, wire, last_drift,
                   config_file, config_run, futures, all_results, batch_start, hash_seed>>

(***************************************************************************)
(* OnlineValidator.run_validation_cycle                                    *)
(***************************************************************************)
\* mutant: the cycle goes on with whatever list the sampler returned
CycleSampleNoCheck ==
    /\ pc = "cycle"
    /\ \E h \in HoldoutFiles :
         \E sampled \in GenerateTestTransactions(h, batch_size) :
            /\ holdout' = h
            /\ test_transactions' = sampled
            /\ idx' = 1
            /\ pc' = IF sampled = <<>> THEN "evaluate" ELSE "score_baseline"
            /\ log' = "sending"
    /\ UNCHANGED <<exit_code, args, ref_data, served, objVars, transaction_buffer,
                   performance_history, now, loopVars, batch_size, baseline_results,
                   candidate_results, baseline_result, candidate_result, baseline_alerts,
                   candidate_alerts, report, calls, last_result, last_alerts,
                   feedback_count, appended, requests, wire, last_drift, config_file,
                   config_run, futures, all_results, batch_start, hash_seed>>

\* lines 398-413: the holdout file is read as it is at this moment; an
\* empty list ends the cycle
CycleSample ==
    /\ pc = "cycle"
    /\ \E h \in HoldoutFiles :
         \E sampled \in GenerateTestTransactions(h, batch_size) :
            /\ holdout' = h
            /\ IF sampled = <<>>
               THEN /\ pc' = "cycle_done"
                    /\ log' = "no-test-transactions"
                    /\ UNCHANGED <<test_transactions, idx>>
               ELSE /\ test_transactions' = sampled
                    /\ idx' = 1
                    /\ pc' = "score_baseline"
                    /\ log' = "sending"
    /\ UNCHANGED <<exit_code, args, ref_data, served, objVars, transaction_buffer,
                   performance_history, now, loopVars, batch_size, baseline_results,
                   candidate_results, baseline_result, candidate_result, baseline_alerts,
                   candidate_alerts, report, calls, last_result, last_alerts,
                   feedback_count, appended, requests, wire, last_drift, config_file,
                   config_run, futures, all_results, batch_start, hash_seed>>

\* result.feedback_received = True, on the record just appended
MarkFeedback(buffer) == [buffer EXCEPT ![Len(buffer)].feedback_received = TRUE]

\* the buffer and the list of results after one call of the scoring loop
BufferAfterScore(out) ==
    IF out.result # <<>> THEN MarkFeedback(BufferAfterSend(out)) ELSE transaction_buffer
ResultsAfterScore(results, out) ==
    IF out.result # <<>>
    THEN Append(results, [out.result[1] EXCEPT !.feedback_received = TRUE])
    ELSE results

\* lines 419-423: the transaction at idx is sent to the baseline model,
\* which answers after `latency` ms
ScoreBaselineAfter(latency) ==
    /\ pc = "score_baseline"
    /\ \E response \in Responses(Baseline, test_transactions[idx]) :
         LET out == SendOutcome(test_transactions[idx], Baseline, response, latency)
         IN  /\ transaction_buffer' = BufferAfterScore(out)
             /\ baseline_results' = ResultsAfterScore(baseline_results, out)
             /\ RecordSend(out)
             /\ now' = out.time
             /\ log' = out.log
    /\ calls' = calls \cup {<<idx, Baseline>>}
    /\ pc' = "score_candidate"
    /\ UNCHANGED <<exit_code, args, ref_data, holdout, served, objVars,
                   performance_history, loopVars, batch_size,
                   test_transactions, idx, candidate_results, baseline_result,
                   candidate_result, baseline_alerts, candidate_alerts, report,
                   last_result, last_alerts, feedback_count, last_drift, config_file,
                   config_run, futures, all_results, batch_start, hash_seed>>

\* mutant: a failed call to the baseline model ends the scoring loop
ScoreBaselineStopsOnFailure ==
    /\ pc = "score_baseline"
    /\ \E response \in Responses(Baseline, test_transactions[idx]) :
         LET out == SendOutcome(test_transactions[idx], Baseline, response, RequestLatencyMs)
         IN  /\ transaction_buffer' = BufferAfterScore(out)
             /\ baseline_results' = ResultsAfterScore(baseline_results, out)
             /\ RecordSend(out)
             /\ now' = out.time
             /\ log' = out.log
             /\ pc' = IF out.result # <<>> THEN "score_candidate" ELSE "evaluate"
    /\ calls' = calls \cup {<<idx, Baseline>>}
    /\ UNCHANGED <<exit_code, args, ref_data, holdout, served, objVars,
                   performance_history, loopVars, batch_size,
                   test_transactions, idx, candidate_results, baseline_result,
                   candidate_result, baseline_alerts, candidate_alerts, report,
                   last_result, last_alerts, feedback_count, last_drift, config_file,
                   config_run, futures, all_results, batch_start, hash_seed>>

\* the scoring loop when every request takes RequestLatencyMs
ScoreBaseline == ScoreBaselineAfter(RequestLatencyMs)

\* lines 425-431: the same transaction is sent to the candidate model, and
\* the loop pauses before the next transaction
ScoreCandidateAfter(latency) ==
    /\ pc = "score_candidate"
    /\ \E response \in Responses(Candidate, test_transactions[idx]) :
         LET out == SendOutcome(test_transactions[idx], Candidate, response, latency)
         IN  /\ transaction_buffer' = BufferAfterScore(out)
             /\ candidate_results' = ResultsAfterScore(candidate_results, out)
             /\ RecordSend(out)
             /\ now' = out.time + ScorePauseMs
             /\ log' = out.log
    /\ calls' = calls \cup {<<idx, Candidate>>}
    /\ idx' = idx + 1
    /\ pc' = IF idx = Len(test_transactions) THEN "evaluate" ELSE "score_baseline"
    /\ UNCHANGED <<exit_code, args, ref_data, holdout, served, objVars,
                   performance_history, loopVars, batch_size,
                   test_transactions, baseline_results, baseline_result,
                   candidate_result, baseline_alerts, candidate_alerts, report,
                   last_result, last_alerts, feedback_count, last_drift, config_file,
                   config_run, futures, all_results, batch_start, hash_seed>>

ScoreCandidate == ScoreCandidateAfter(RequestLatencyMs)

\* lines 441-442: both models are evaluated over the last minute
Evaluate ==
    LET baseline_out == ValidateOutcome(Baseline, 1)
        candidate_out == ValidateOutcome(Candidate, 1)
    IN  /\ pc = "evaluate"
        /\ performance_history' =
               StoreResult(StoreResult(performance_history, Baseline, baseline_out),
                           Candidate, candidate_out)
        /\ baseline_result' = baseline_out.result
        /\ candidate_result' = candidate_out.result
        /\ log' = candidate_out.log
        /\ pc' = "report"
        /\ UNCHANGED <<exit_code, args, ref_data, holdout, served, objVars,
                       transaction_buffer, now, loopVars, batch_size,
                       test_transactions, idx, baseline_results, candidate_results,
                       baseline_alerts, candidate_alerts, report, calls, last_result,
                       last_alerts, feedback_count, appended, requests, wire, last_drift,
                       config_file, config_run, futures, all_results, batch_start,
                       hash_seed>>

(***************************************************************************)
(* Python float arithmetic (IEEE 754 binary64, round to nearest, ties to   *)
(* even) on the values the comparison of the two models computes.  A       *)
(* natural number is the sequence of its bits, most significant first; a   *)
(* float is a sign and, when not zero, a 53-bit mantissa m and an exponent *)
(* e, with value sign * m * 2^e.  The values here are far from overflow    *)
(* and from the subnormal range.                                           *)
(***************************************************************************)
MantissaBits == 53

Zeros(n) == [i \in 1..n |-> 0]

\* a without its leading zeros
Strip(a) ==
    LET ones == {i \in DOMAIN a : a[i] = 1}
    IN  IF ones = {}
        THEN <<>>
        ELSE SubSeq(a, CHOOSE i \in ones : \A j \in ones : i <= j, Len(a))

RECURSIVE BitsOf(_)
BitsOf(n) == IF n = 0 THEN <<>> ELSE Append(BitsOf(n \div 2), n % 2)

PadTo(a, n) == Zeros(n - Len(a)) \o a
ShiftLeft(a, k) == IF a = <<>> THEN <<>> ELSE a \o Zeros(k)

BigLess(a, b) ==
    IF Len(a) # Len(b)
    THEN Len(a) < Len(b)
    ELSE \E i \in DOMAIN a : a[i] < b[i] /\ \A j \in 1..(i - 1) : a[j] = b[j]

\* a - b, for a >= b: bit i borrows when the bits of a below it are less
\* than those of b
BigSub(a, b) ==
    LET n == Len(a)
        p == PadTo(b, n)
        borrow(i) == \E j \in (i + 1)..n :
                         a[j] < p[j] /\ \A k \in (i + 1)..(j - 1) : a[k] = p[k]
    IN  Strip([i \in 1..n |-> (a[i] - p[i] - (IF borrow(i) THEN 1 ELSE 0) + 2) % 2])

\* a + b: bit i gets a carry when a pair of ones below it is followed only
\* by pairs holding a one
BigAdd(a, b) ==
    LET n == (IF Len(a) > Len(b) THEN Len(a) ELSE Len(b)) + 1
        p == PadTo(a, n)
        r == PadTo(b, n)
        carry(i) == \E j \in (i + 1)..n :
                        p[j] + r[j] = 2 /\ \A k \in (i + 1)..(j - 1) : p[k] + r[k] = 1
    IN  Strip([i \in 1..n |-> (p[i] + r[i] + (IF carry(i) THEN 1 ELSE 0)) % 2])

RECURSIVE BigMulSmall(_, _)
BigMulSmall(a, k) ==
    IF k = 0
    THEN <<>>
    ELSE BigAdd(IF k % 2 = 1 THEN a ELSE <<>>, ShiftLeft(BigMulSmall(a, k \div 2), 1))

\* long division: one bit of the dividend is brought down
DivBit(num, den, st, i) ==
    LET r == Strip(Append(st.rem, num[i]))
    IN  IF BigLess(r, den)
        THEN [q |-> Append(st.q, 0), rem |-> r]
        ELSE [q |-> Append(st.q, 1), rem |-> BigSub(r, den)]

\* the bits first..last of the dividend are brought down, in this order
RECURSIVE DivBits(_, _, _, _, _)
\* (the test on st makes TLC evaluate one half before it starts the other)
DivBits(num, den, st, first, last) ==
    IF first > last \/ st.q = <<2>> THEN st
    ELSE IF first = last THEN DivBit(num, den, st, first)
    ELSE LET mid == (first + last) \div 2
         IN  DivBits(num, den, DivBits(num, den, st, first, mid), mid + 1, last)

\* quotient and remainder; the first Len(den) - 1 bits of num are less
\* than den
BigDivMod(num, den) ==
    IF Len(num) < Len(den)
    THEN [q |-> <<>>, rem |-> num]
    ELSE LET st == DivBits(num, den,
                           [q |-> <<>>, rem |-> Strip(SubSeq(num, 1, Len(den) - 1))],
                           Len(den), Len(num))
         IN  [q |-> Strip(st.q), rem |-> st.rem]

FloatZero == [sign |-> 0, m |-> <<>>, e |-> 0]

\* the float nearest to sign * (q + f) * 2^e, where 0 <= f < 1 and sticky
\* tells whether f > 0 (then q has more than MantissaBits bits)
RoundToFloat(sign, q, sticky, e) ==
    IF q = <<>>
    THEN FloatZero
    ELSE IF Len(q) <= MantissaBits
    THEN [sign |-> sign, m |-> q \o Zeros(MantissaBits - Len(q)),
          e |-> e - (MantissaBits - Len(q))]
    ELSE LET k == Len(q) - MantissaBits
             kept == SubSeq(q, 1, MantissaBits)
             low == SubSeq(q, MantissaBits + 1, Len(q))
             half == <<1>> \o Zeros(k - 1)
             up == low[1] = 1 /\ (low # half \/ sticky \/ kept[MantissaBits] = 1)
             rounded == IF up THEN BigAdd(kept, <<1>>) ELSE kept
         IN  IF Len(rounded) > MantissaBits
             THEN [sign |-> sign, m |-> SubSeq(rounded, 1, MantissaBits), e |-> e + k + 1]
             ELSE [sign |-> sign, m |-> rounded, e |-> e + k]

\* the float nearest to sign * (num / den) * 2^e
FloatQuotient(sign, num, den, e) ==
    IF num = <<>>
    THEN FloatZero
    ELSE LET d == MantissaBits + 2 + Len(den) - Len(num)
             s == IF d > 0 THEN d ELSE 0
             dm == BigDivMod(ShiftLeft(num, s), den)
         IN  RoundToFloat(sign, dm.q, dm.rem # <<>>, e - s)

\* numerator / denominator of two counts, as numpy divides them
FloatOfFraction(x) == FloatQuotient(1, BitsOf(x[1]), BitsOf(x[2]), 0)

\* x - y, for x >= 0 and y >= 0
FloatSub(x, y) ==
    IF y.sign = 0 THEN x
    ELSE IF x.sign = 0 THEN [y EXCEPT !.sign = -1]
    ELSE LET low == IF x.e < y.e THEN x.e ELSE y.e
             bx == ShiftLeft(x.m, x.e - low)
             by == ShiftLeft(y.m, y.e - low)
         IN  IF bx = by THEN FloatZero
             ELSE IF BigLess(bx, by) THEN RoundToFloat(-1, BigSub(by, bx), FALSE, low)
             ELSE RoundToFloat(1, BigSub(bx, by), FALSE, low)

\* x / y, for y > 0
FloatDiv(x, y) == FloatQuotient(x.sign, x.m, y.m, x.e - y.e)

\* x * k, for a natural number k
FloatMulInt(x, k) == RoundToFloat(x.sign, BigMulSmall(x.m, k), FALSE, x.e)

\* abs(x) compared with the natural number k: -1, 0 or 1
FloatAbsCmpInt(x, k) ==
    LET bx == IF x.e > 0 THEN ShiftLeft(x.m, x.e) ELSE x.m
        bk == IF x.e < 0 THEN ShiftLeft(BitsOf(k), -x.e) ELSE BitsOf(k)
    IN  IF bx = bk THEN 0 ELSE IF BigLess(bx, bk) THEN -1 ELSE 1

\* ((candidate - baseline) / baseline * 100) if baseline > 0 else 0, on the
\* floats of two fractions
FloatPercentChange(candidate, baseline) ==
    LET c == FloatOfFraction(candidate)
        b == FloatOfFraction(baseline)
    IN  IF b.sign > 0 THEN FloatMulInt(FloatDiv(FloatSub(c, b), b), 100) ELSE FloatZero

\* x >= k and abs(x) <= k
FloatGeInt(x, k) == x.sign > 0 /\ FloatAbsCmpInt(x, k) >= 0
FloatAbsLeInt(x, k) == x.sign = 0 \/ FloatAbsCmpInt(x, k) <= 0

RatSub(a, b) == <<a[1] * b[2] - b[1] * a[2], a[2] * b[2]>>
RatAbs(a) == <<Abs(a[1]), a[2]>>

\* ((candidate - baseline) / baseline * 100) if baseline > 0 else 0
PercentChange(candidate, baseline) ==
    IF RatLt(Zero, baseline)
    THEN RatMul(RatDiv(RatSub(candidate, baseline), baseline), <<100, 1>>)
    ELSE Zero

\* `change >= 5` and `abs(change) <= 5`, for the change that the code
\* computes in floats from the fractions of two counts.  The float differs
\* from the exact change by a few units in its last place, and an exact
\* change of two such fractions that is not 5 or -5 is farther than that
\* from both, so that the float arithmetic is evaluated only when the exact
\* change is 5 or -5.
ChangeAtLeast5(candidate, baseline) ==
    LET exact == PercentChange(candidate, baseline)
    IN  IF RatEq(RatAbs(exact), <<5, 1>>)
        THEN FloatGeInt(FloatPercentChange(candidate, baseline), 5)
        ELSE RatLe(<<5, 1>>, exact)

ChangeWithin5(candidate, baseline) ==
    LET exact == PercentChange(candidate, baseline)
    IN  IF RatEq(RatAbs(exact), <<5, 1>>)
        THEN FloatAbsLeInt(FloatPercentChange(candidate, baseline), 5)
        ELSE RatLe(RatAbs(exact), <<5, 1>>)

\* lines 457-472: which of the two expectations the comparison reports as met
Compare(baseline, candidate) ==
    [compared |-> TRUE,
     recall_met |-> ChangeAtLeast5(candidate.recall, baseline.recall),
     precision_stable |-> ChangeWithin5(candidate.precision, baseline.precision)]

\* lines 444-493: the comparison and the alerts, when both models have a
\* result, else one error line
Report ==
    /\ pc = "report"
    /\ IF baseline_result # <<>> /\ candidate_result # <<>>
       THEN /\ report' = Compare(baseline_result[1], candidate_result[1])
            /\ baseline_alerts' = CheckPerformanceAlerts(baseline_result[1])
            /\ candidate_alerts' = CheckPerformanceAlerts(candidate_result[1])
            /\ log' = "model-comparison"
       ELSE /\ log' = "failed-to-validate"
            /\ UNCHANGED <<report, baseline_alerts, candidate_alerts>>
    /\ pc' = "cycle_done"
    /\ UNCHANGED <<exit_code, args, ref_data, holdout, served, objVars,
                   transaction_buffer, performance_history, now,
                   loopVars, batch_size, test_transactions, idx, baseline_results,
                   candidate_results, baseline_result, candidate_result, calls,
                   last_result, last_alerts, feedback_count, appended, requests, wire,
                   last_drift, config_file, config_run, futures, all_results, batch_start,
                   hash_seed>>

\* the locals of run_validation_cycle end with the call
ClearCycle ==
    /\ batch_size' = 0
    /\ test_transactions' = <<>>
    /\ idx' = 0
    /\ baseline_results' = <<>>
    /\ candidate_results' = <<>>
    /\ baseline_result' = <<>>
    /\ candidate_result' = <<>>
    /\ baseline_alerts' = <<>>
    /\ candidate_alerts' = <<>>
    /\ report' = NoReport
    /\ calls' = {}

\* mutant: the loop goes on to its next test without sleeping
CycleDoneNoSleep ==
    /\ pc = "cycle_done"
    /\ ClearCycle
    /\ IF args.single_cycle
       THEN /\ pc' = "exit"
            /\ exit_code' = 0
            /\ log' = "none"
       ELSE /\ pc' = "loop"
            /\ log' = "waiting"
            /\ UNCHANGED exit_code
    /\ UNCHANGED <<args, ref_data, holdout, served, objVars, transaction_buffer,
                   performance_history, now, loopVars, last_result, last_alerts,
                   feedback_count, appended, requests, wire, last_drift, config_file,
                   config_run, futures, all_results, batch_start, hash_seed>>

\* the cycle returns.  In single-cycle mode main returns 0; in continuous
\* mode the loop sleeps min(interval, remaining) when that is positive
\* (lines 514-520)
CycleDone ==
    LET remaining_time == args.duration * MsPerSecond - (now - start_time)
        sleep_time == Min(args.interval * MsPerSecond, remaining_time)
    IN  /\ pc = "cycle_done"
        /\ ClearCycle
        /\ IF args.single_cycle
           THEN /\ pc' = "exit"
                /\ exit_code' = 0
                /\ log' = "none"
                /\ UNCHANGED now
           ELSE /\ pc' = "loop"
                /\ now' = IF sleep_time > 0 THEN now + sleep_time ELSE now
                /\ log' = "waiting"
                /\ UNCHANGED exit_code
        /\ UNCHANGED <<args, ref_data, holdout, served, objVars, transaction_buffer,
                       performance_history, loopVars, last_result, last_alerts,
                       feedback_count, appended, requests, wire, last_drift, config_file,
                       config_run, futures, all_results, batch_start, hash_seed>>

\* KeyboardInterrupt anywhere inside main's try block: main prints and
\* returns 0
Interrupt ==
    /\ pc \notin {"exit", "api"}
    /\ pc' = "exit"
    /\ exit_code' = 0
    /\ log' = "interrupted"
    /\ UNCHANGED <<args, ref_data, holdout, served, objVars, transaction_buffer,
                   performance_history, now, loopVars, cycleVars, last_result,
                   last_alerts, feedback_count, appended, requests, wire, last_drift,
                   config_file, config_run, futures, all_results, batch_start, hash_seed>>

Next ==
    \/ Main
    \/ RunSingleCycle
    \/ RunContinuous
    \/ LoopTest
    \/ CycleSample
    \/ ScoreBaseline
    \/ ScoreCandidate
    \/ Evaluate
    \/ Report
    \/ CycleDone
    \/ Interrupt

Spec == Init /\ [][Next]_vars

(***************************************************************************)
(* Claims about the program                                                *)
(***************************************************************************)
HoldoutUnusable(h) == ~h.readable \/ h.rows = <<>>

\* C7: if the held-out data source is unreadable or empty when a cycle reads
\* it, the cycle is skipped as a whole: the step that reads it ends the cycle,
\* sends no request, appends no record to the buffer, adds no result to any
\* history and does not end the program; the skipped cycle has scored nothing
\* and evaluated nothing.
C7_UnusableHoldoutSkipsCycle ==
    /\ [][(pc = "cycle" /\ pc' # "exit" /\ HoldoutUnusable(holdout')) =>
            /\ pc' = "cycle_done"
            /\ exit_code' = NoExit
            /\ UNCHANGED <<transaction_buffer, performance_history, requests, appended>>]_vars
    /\ []((pc = "cycle_done" /\ HoldoutUnusable(holdout)) =>
            /\ calls = {}
            /\ baseline_result = <<>>
            /\ candidate_result = <<>>)

\* a cycle skipped for an empty holdout file while the buffer still holds the
\* records of an earlier cycle
C7_Witness ==
    /\ pc = "cycle_done"
    /\ holdout = HoldoutEmpty
    /\ log = "no-test-transactions"
    /\ transaction_buffer # <<>>
    /\ cycle_count = 2

\* C8: a failed inference is not fatal.  The failing call leaves the buffer
\* as it was and the program running; after the call to the baseline model
\* the candidate model is called for the same transaction; when the scoring
\* loop has ended every sampled transaction has been sent to both models;
\* the buffer grows only by a call that got status 200 with a parsable
\* probability.
C8_FailedInferenceNotFatal ==
    /\ [][(pc \in {"score_baseline", "score_candidate"} /\ pc' # "exit"
           /\ log' \in {"error-sending", "bad-status"}) =>
            /\ UNCHANGED <<transaction_buffer, appended>>
            /\ exit_code' = NoExit]_vars
    /\ [][(pc = "score_baseline" /\ pc' # "exit") =>
            (pc' = "score_candidate" /\ idx' = idx)]_vars
    /\ [][transaction_buffer' # transaction_buffer =>
            (log' = "predicted" /\ requests' = requests + 1)]_vars
    /\ [](pc \in {"evaluate", "report"} =>
            calls = (1..Len(test_transactions)) \X ConfiguredModels)
    /\ [](\A i \in DOMAIN transaction_buffer :
            transaction_buffer[i].prediction_prob \in 0..100)

\* the scoring loop has ended after one failed call to the baseline model:
\* the candidate model was called for every transaction
C8_Witness ==
    /\ pc = "evaluate"
    /\ requests = Len(appended) + 1
    /\ Len(test_transactions) = DefaultCycleBatch
    /\ Len(baseline_results) = Len(test_transactions) - 1
    /\ Len(candidate_results) = Len(test_transactions)

\* C9: when a cycle finds the held-out data unreadable or empty, continuous
\* mode is still running after it, and single-cycle mode exits with a
\* non-zero status.
C9_FatalCycleContinuesOrExitsNonZero ==
    /\ (pc = "cycle_done" /\ ~args.single_cycle /\ HoldoutUnusable(holdout)) =>
           exit_code = NoExit
    /\ (pc = "exit" /\ args.single_cycle /\ scaler # <<>> /\ log # "interrupted"
        /\ HoldoutUnusable(holdout)) => exit_code \notin {0, NoExit}

\* C10: main exits with 0 when it is interrupted or when validation runs to
\* its end, and with a non-zero code when the training data cannot be read;
\* in that case no cycle has started and no request has been sent.
C10_ExitCodes ==
    /\ (pc = "exit") <=> (exit_code # NoExit)
    /\ (pc = "exit" /\ log = "interrupted") => exit_code = 0
    /\ (pc = "exit" /\ log # "interrupted" /\ ref_data.readable) => exit_code = 0
    /\ (pc = "exit" /\ log # "interrupted" /\ ~ref_data.readable) =>
           exit_code \notin {0, NoExit}
    /\ ~ref_data.readable =>
           /\ pc \in {"main", "exit"}
           /\ requests = 0
           /\ appended = <<>>
           /\ cycle_count = 0
           /\ batch_size = 0

\* main has returned 1 for a missing training file
C10_Witness ==
    /\ pc = "exit"
    /\ exit_code = 1
    /\ ref_data = RefMissing
    /\ log = "validation-failed"

(***************************************************************************)
(* SpecWire: the inference requests of the clients of the repository.      *)
(* Every client fits its scaler on the same training file, so the clients  *)
(* that scale share feature_columns and scaler with the validator.         *)
(***************************************************************************)
MaxWireRequests == 2

\* response bodies: the list "outputs", each output with its list "data"
WireBody(outputs) == [outputs |-> outputs]
WireBodies ==
    {WireBody(<<[data |-> <<90>>]>>),
     WireBody(<<[data |-> <<20, 30>>], [data |-> <<70>>]>>),
     WireBody(<<>>)}
WireResponse(status, body) == [raised |-> FALSE, status |-> status, body |-> body]
WireResponses ==
    {[raised |-> TRUE, status |-> 0, body |-> WireBody(<<>>)],
     WireResponse(500, WireBody(<<>>))}
    \cup {WireResponse(200, b) : b \in WireBodies}

\* float(result["outputs"][0]["data"][0]); Malformed when that raises
ReadProbability(body) ==
    IF body.outputs = <<>> \/ body.outputs[1].data = <<>>
    THEN Malformed
    ELSE body.outputs[1].data[1]

\* what a client reads from a response: nothing unless the status is 200
ReadResponse(response) ==
    IF ~response.raised /\ response.status = 200
    THEN ReadProbability(response.body)
    ELSE Malformed

\* the response as send_test_transaction sees it
AsHttp(response) ==
    IF response.raised THEN NetError ELSE Http(response.status, ReadResponse(response))

\* a request of a client other than the validator: only the wire changes
ClientSend(client, payload, response) ==
    /\ pc = "api"
    /\ wire' = Wire(client, payload, ReadResponse(response))
    /\ UNCHANGED <<mainVars, objVars, loopVars, cycleVars, transaction_buffer,
                   performance_history, now, last_result, last_alerts, feedback_count,
                   appended, requests, log, last_drift, config_file, config_run, futures,
                   all_results, batch_start, hash_seed>>

\* replay_transactions.py: preprocess_transaction wraps the scaled list in
\* a list; a row without a feature column raises before any request
ReplaySend(transaction_row, response) ==
    LET scaled == PreprocessTransaction(transaction_row)
    IN  /\ scaled # <<>>
        /\ ClientSend("transaction-replay",
                      V2Payload("input_0", <<JsonList(ToList(scaled[1]))>>), response)

\* simulate-fraud-traffic.py: the features are generated as
\* [time, amount] followed by 28 values and sent unscaled
SimulatorFeatures(time_val, amount, v) == <<time_val, amount>> \o [i \in 1..NumV |-> v]
SimulatorSend(features, response) ==
    ClientSend("traffic-simulator", V2Payload("fraud_features", ToList(features)), response)

\* validate-production-pipeline.py: predict_fraud
PipelineSend(transaction_data, response) ==
    LET scaled == PreprocessTransaction(transaction_data)
    IN  /\ scaled # <<>>
        /\ ClientSend("pipeline-validator",
                      V2Payload("fraud_features", ToList(scaled[1])), response)

\* test-v2-format-working.py: create_v2_payload asserts len(features) == 30
V2TestSend(features, response) ==
    /\ Len(features) = WireFeatureCount
    /\ ClientSend("v2-format-test", V2Payload("fraud_features", ToList(features)), response)

InitWire ==
    /\ pc = "api"
    /\ exit_code = NoExit
    /\ args = DefaultArgs
    /\ holdout = HoldoutGood
    /\ served = [m \in ConfiguredModels |-> "accurate"]
    /\ \E ref \in {RefGood, RefExtraColumn} : Constructed(ref)
    /\ now = 0
    /\ start_time = 0
    /\ cycle_count = 0
    /\ NoCycle
    /\ last_result = NotCalled
    /\ last_alerts = NoAlerts
    /\ feedback_count = 0
    /\ appended = <<>>
    /\ requests = 0
    /\ wire = NoWire
    /\ last_drift = NoDrift
    /\ hash_seed = 0
    /\ batch_start = 0
    /\ all_results = <<>>
    /\ futures = <<>>
    /\ config_run = NoConfigRun
    /\ config_file = DefaultConfigFile
    /\ log = "none"

NextWire ==
    \/ /\ requests < MaxWireRequests
       /\ \E transaction_data \in {FraudTx, NormalTx}, response \in WireResponses :
              SendTestTransaction(transaction_data, Baseline, AsHttp(response), 1)
    \/ \E i \in DOMAIN holdout.rows, response \in WireResponses :
           ReplaySend(holdout.rows[i], response)
    \/ \E v \in {0, 3}, response \in WireResponses :
           SimulatorSend(SimulatorFeatures(12345, 150, v), response)
    \/ \E transaction_data \in {FraudTx, NormalTx}, response \in WireResponses :
           PipelineSend(transaction_data, response)
    \/ \E v \in {0, 1}, response \in WireResponses :
           V2TestSend(SimulatorFeatures(12345, 150, v), response)

SpecWire == InitWire /\ [][NextWire]_vars

\* the data of an input is a flat list of exactly WireFeatureCount numbers
FlatFeatureList(data) ==
    /\ Len(data) = WireFeatureCount
    /\ \A i \in DOMAIN data : data[i].json = "number"

\* C11: every inference request on the wire has content_type "np" and one
\* input of shape [1, 30], datatype FP32 and a flat list of exactly 30
\* numbers as data, and the probability its client read from a 200 response
\* is outputs[0].data[0].
C11_WireFormat ==
    wire.client # "none" =>
        /\ wire.payload.parameters.content_type = "np"
        /\ Len(wire.payload.inputs) = 1
        /\ wire.payload.inputs[1].shape = <<1, WireFeatureCount>>
        /\ wire.payload.inputs[1].datatype = "FP32"
        /\ FlatFeatureList(wire.payload.inputs[1].data)
        /\ wire.read \in {Malformed, 90, 20}

(***************************************************************************)
(* More claims about the program                                           *)
(***************************************************************************)
InCycle == pc \in {"cycle", "score_baseline", "score_candidate", "evaluate", "report"}

\* C12: in every cycle that runs, in single-cycle mode and in continuous
\* mode, the batch size of the cycle is the value of --batch-size.
C12_BatchSizeFlagSetsCycleBatch ==
    InCycle => batch_size = args.batch_size

(***************************************************************************)
(* SpecDrift: one call of calculate_drift_score on a validator built from  *)
(* a training file, with a window of up to MaxDriftRows feature vectors.   *)
(***************************************************************************)
MaxDriftRows == 2

\* training files whose feature columns are all constant (pandas gives
\* std 0, the scaler scale 1), and with one constant column
RefConstantColumns == RefData(TRUE, DataColumns, 2, 0, 1)
RefOneConstantColumn ==
    [RefGood EXCEPT !.std[ColAmount] = 0, !.scale[ColAmount] = 1]
DriftRefs == {RefGood, RefOneConstantColumn, RefConstantColumns}

DriftValues == {2, 4}
FeatureVectors == [1..(NumV + 2) -> DriftValues]
DriftWindows == UNION {[1..n -> FeatureVectors] : n \in 0..MaxDriftRows}

\* a call of calculate_drift_score from outside the validation cycle
CalculateDrift(recent_features) ==
    /\ pc = "api"
    /\ last_drift' = [called |-> TRUE, recent_features |-> recent_features,
                      value |-> CalculateDriftScore(recent_features)]
    /\ UNCHANGED <<mainVars, objVars, loopVars, cycleVars, transaction_buffer,
                   performance_history, now, last_result, last_alerts, feedback_count,
                   appended, requests, wire, log, config_file, config_run, futures,
                   all_results, batch_start, hash_seed>>

InitDrift ==
    /\ pc = "api"
    /\ exit_code = NoExit
    /\ args = DefaultArgs
    /\ holdout = HoldoutGood
    /\ served = [m \in ConfiguredModels |-> "accurate"]
    /\ \E ref \in DriftRefs : Constructed(ref)
    /\ now = 0
    /\ start_time = 0
    /\ cycle_count = 0
    /\ NoCycle
    /\ last_result = NotCalled
    /\ last_alerts = NoAlerts
    /\ feedback_count = 0
    /\ appended = <<>>
    /\ requests = 0
    /\ wire = NoWire
    /\ last_drift = NoDrift
    /\ hash_seed = 0
    /\ batch_start = 0
    /\ all_results = <<>>
    /\ futures = <<>>
    /\ config_run = NoConfigRun
    /\ config_file = DefaultConfigFile
    /\ log = "none"

NextDrift ==
    /\ ~last_drift.called
    /\ \E recent_features \in DriftWindows : CalculateDrift(recent_features)

SpecDrift == InitDrift /\ [][NextDrift]_vars

\* the reference operator: the mean over the features with non-zero
\* reference std of |mean(recent) - reference.mean| / reference.std
VaryingFeatures == {j \in DOMAIN feature_columns : ref_data.std[feature_columns[j]] # 0}
ColumnTotal(window, j) == SumSeq([r \in DOMAIN window |-> window[r][j]])
FeatureDrift(window, j) ==
    <<Abs(ColumnTotal(window, j) - Len(window) * ref_data.mean[feature_columns[j]]),
      Len(window) * ref_data.std[feature_columns[j]]>>
RECURSIVE DriftTotal(_, _)
DriftTotal(window, features) ==
    IF features = {} THEN Zero
    ELSE LET j == CHOOSE k \in features : TRUE
         IN  RatAdd(FeatureDrift(window, j), DriftTotal(window, features \ {j}))
EqualsReference(window) ==
    \A j \in DOMAIN feature_columns :
        ColumnTotal(window, j) = Len(window) * ref_data.mean[feature_columns[j]]

\* C13: calculate_drift_score returns 0 for an empty window and otherwise the
\* mean of the per-feature drifts over the features with non-zero reference
\* std; its result is a non-negative number for every window and every
\* reference, and 0 when the window equals the reference.
C13_DriftMatchesReference ==
    last_drift.called =>
        LET window == last_drift.recent_features
            value == last_drift.value
        IN  /\ ~IsNaN(value)
            /\ value[1] >= 0
            /\ window = <<>> => RatEq(value, Zero)
            /\ (window # <<>> /\ VaryingFeatures # {}) =>
                   RatEq(RatMul(value, <<Cardinality(VaryingFeatures), 1>>),
                         DriftTotal(window, VaryingFeatures))
            /\ (window # <<>> /\ EqualsReference(window)) => RatEq(value, Zero)

\* numpy's ravel of a matrix: its rows one after the other
RECURSIVE Ravel(_)
Ravel(m) == IF m = <<>> THEN <<>> ELSE Head(m) \o Ravel(Tail(m))

\* C14: the confusion matrix of every ValidationResult is 2x2, also for a
\* window whose labels and predictions are all of one class, so that it
\* unpacks into the four counts TN, FP, FN, TP as the replay analysis does.
C14_ConfusionMatrixIsTwoByTwo ==
    HasResult =>
        LET cm == last_result.value[1].confusion_matrix
        IN  /\ Len(cm) = 2
            /\ \A a \in DOMAIN cm : Len(cm[a]) = 2
            /\ Len(Ravel(cm)) = 4

(***************************************************************************)
(* SpecConfig: runs of update-model-config.py on one configuration file    *)
(***************************************************************************)
ConfigWeights == {-20, 20, 80, 120}
ConfigArgSets ==
    {ConfigArgs(v1, v2, b, c, dry) :
        v1 \in {NoUri, UriModels}, v2 \in {NoUri, UriModels, UriNoScheme, UriBucketOnly},
        b \in ConfigWeights, c \in ConfigWeights, dry \in BOOLEAN}

InitConfig ==
    /\ pc = "config"
    /\ exit_code = NoExit
    /\ args = DefaultArgs
    /\ holdout = HoldoutGood
    /\ served = [m \in ConfiguredModels |-> "accurate"]
    /\ Constructed(RefGood)
    /\ now = 0
    /\ start_time = 0
    /\ cycle_count = 0
    /\ NoCycle
    /\ last_result = NotCalled
    /\ last_alerts = NoAlerts
    /\ feedback_count = 0
    /\ appended = <<>>
    /\ requests = 0
    /\ wire = NoWire
    /\ last_drift = NoDrift
    /\ hash_seed = 0
    /\ batch_start = 0
    /\ all_results = <<>>
    /\ futures = <<>>
    /\ config_file \in {DefaultConfigFile, MissingConfigFile,
                        ConfigFile(TRUE, UriArtifacts, UriArtifacts, 100, 0)}
    /\ config_run = NoConfigRun
    /\ log = "none"

NextConfig == \E a \in ConfigArgSets : UpdateModelConfigMain(a)

SpecConfig == InitConfig /\ [][NextConfig]_vars

\* int(s) of a string written by str
RECURSIVE DigitsValue(_)
DigitsValue(ds) ==
    IF ds = <<>> THEN 0
    ELSE 10 * DigitsValue(SubSeq(ds, 1, Len(ds) - 1)) + ds[Len(ds)]
IntOf(s) == IF s.negative THEN -DigitsValue(s.digits) ELSE DigitsValue(s.digits)

\* C15: the stored traffic-split-baseline and traffic-split-candidate are
\* non-negative and sum to 100 after any sequence of runs; a run with a
\* negative weight, with weights not summing to 100 or with a malformed S3
\* URI exits with 1, a dry run of valid arguments with 0, and neither
\* changes the file.
C15_TrafficWeightsSumTo100 ==
    /\ [](/\ IntOf(config_file.data.traffic_split_baseline) >= 0
          /\ IntOf(config_file.data.traffic_split_candidate) >= 0
          /\ IntOf(config_file.data.traffic_split_baseline)
                 + IntOf(config_file.data.traffic_split_candidate) = 100)
    /\ [][(ConfigArgsRejected(config_run'.args) \/ config_run'.args.dry_run) =>
             UNCHANGED config_file]_vars
    /\ [](config_run.ran =>
             /\ ConfigArgsRejected(config_run.args) => config_run.exit_code = 1
             /\ (~ConfigArgsRejected(config_run.args) /\ config_run.args.dry_run) =>
                    config_run.exit_code = 0)

\* a run has moved the split from 80/20 to 20/80 in the file
C15_Witness ==
    /\ config_run.ran
    /\ config_run.exit_code = 0
    /\ ~config_run.args.dry_run
    /\ config_file.exists
    /\ IntOf(config_file.data.traffic_split_baseline) = 20
    /\ IntOf(config_file.data.traffic_split_candidate) = 80
    /\ config_file.data.fraud_v2_storage_uri = UriModels

(***************************************************************************)
(* The evaluator on a loaded buffer: two models, twenty records each, all  *)
(* labeled, with feedback and one minute old.  The first model has 15      *)
(* correct predictions, 3 false positives and 2 false negatives; the       *)
(* second has 18 correct predictions and 2 errors.  The buffer of the      *)
(* program holds 10000 records, so that it holds these forty; nothing is   *)
(* appended in this specification.                                         *)
(***************************************************************************)
Repeat(record, n) == [i \in 1..n |-> record]

\* the records of one model by outcome: caught fraud, false alarm, missed
\* fraud, legitimate and passed
ScenarioRecords(model_name, tp, fp, fn, tn) ==
    Repeat(EvalRecord(model_name, 1, 90, TRUE, MsPerMinute), tp)
    \o Repeat(EvalRecord(model_name, 0, 90, TRUE, MsPerMinute), fp)
    \o Repeat(EvalRecord(model_name, 1, 20, TRUE, MsPerMinute), fn)
    \o Repeat(EvalRecord(model_name, 0, 20, TRUE, MsPerMinute), tn)

\* the model names of the scenario: the two the validator is constructed
\* with, or two others
ScenarioNames == {<<"A", "B">>, <<Baseline, Candidate>>}

ScenarioBuffers ==
    {ScenarioRecords(names[1], tp_a, 3, 2, 15 - tp_a)
         \o ScenarioRecords(names[2], tp_b, fp_b, 2 - fp_b, 18 - tp_b) :
     names \in ScenarioNames, tp_a \in 0..15, tp_b \in 0..18, fp_b \in 0..2}

InitScenario ==
    /\ pc = "api"
    /\ exit_code = NoExit
    /\ args = DefaultArgs
    /\ holdout = HoldoutGood
    /\ served = [m \in ConfiguredModels |-> "accurate"]
    /\ ref_data = RefGood
    /\ feature_columns = SelectFeatureColumns(RefGood.columns)
    /\ scaler = FitScaler(RefGood, SelectFeatureColumns(RefGood.columns))
    /\ baseline_stats = BaselineStats(RefGood, SelectFeatureColumns(RefGood.columns))
    /\ transaction_buffer \in ScenarioBuffers
    /\ performance_history = [m \in ConfiguredModels |-> <<>>]
    /\ now = EvalClock
    /\ start_time = 0
    /\ cycle_count = 0
    /\ NoCycle
    /\ last_result = NotCalled
    /\ last_alerts = NoAlerts
    /\ feedback_count = 0
    /\ appended = [i \in DOMAIN transaction_buffer |-> Unflagged(transaction_buffer[i])]
    /\ requests = Len(transaction_buffer)
    /\ wire = NoWire
    /\ last_drift = NoDrift
    /\ hash_seed = 0
    /\ batch_start = 0
    /\ all_results = <<>>
    /\ futures = <<>>
    /\ config_run = NoConfigRun
    /\ config_file = DefaultConfigFile
    /\ log = "none"

ScenarioA == transaction_buffer[1].model_name
ScenarioB == transaction_buffer[Len(transaction_buffer)].model_name

\* the evaluator is called for the first model, then for the second
NextScenario ==
    \/ /\ ~last_result.called
       /\ ValidateModelPerformance(ScenarioA, 60)
    \/ /\ last_result.called
       /\ last_result.model_name = ScenarioA
       /\ ValidateModelPerformance(ScenarioB, 60)

SpecScenario == InitScenario /\ [][NextScenario]_vars

\* the result that the evaluator returned for the first model: the newest
\* of its history, which is where a returned result is stored
ResultOfA ==
    IF ScenarioA \in DOMAIN performance_history
    THEN performance_history[ScenarioA]
    ELSE <<>>

\* C16: with twenty feedback-received records of model A (15 correct, 3
\* false positives, 2 false negatives) and twenty of model B (18 correct) in
\* the window, the evaluator returns a result for each model, and the F1 of
\* B's result is higher than the F1 of A's.
C16_EvaluatorRanksBAboveA ==
    last_result.called =>
        /\ last_result.value # <<>>
        /\ last_result.model_name = ScenarioB =>
               /\ ResultOfA # <<>>
               /\ RatLt(ResultOfA[Len(ResultOfA)].f1_score, last_result.value[1].f1_score)

(***************************************************************************)
(* The phases of a validation cycle                                        *)
(***************************************************************************)
\* the phase the program is in, by its position: sampling (lines 398-413),
\* scoring (415-431), evaluating (441-442), reporting (444-493), else idle
Phase ==
    CASE pc = "cycle" -> "SAMPLING"
      [] pc \in {"score_baseline", "score_candidate"} -> "SCORING"
      [] pc = "evaluate" -> "EVALUATING"
      [] pc = "report" -> "REPORTING"
      [] OTHER -> "idle"

\* the phases that may follow a phase; a cycle that sampled nothing, or a
\* program that is stopped, goes to idle
PhaseSuccessors(phase) ==
    CASE phase = "idle" -> {"idle", "SAMPLING"}
      [] phase = "SAMPLING" -> {"SCORING", "idle"}
      [] phase = "SCORING" -> {"SCORING", "EVALUATING", "idle"}
      [] phase = "EVALUATING" -> {"REPORTING", "idle"}
      [] phase = "REPORTING" -> {"idle"}

AllCalls == (1..Len(test_transactions)) \X ConfiguredModels

\* C17: a cycle runs through its phases in the order SAMPLING, SCORING,
\* EVALUATING, REPORTING, idle.  A scoring request is sent only in SCORING,
\* that is after the sampling has finished and before the evaluation began;
\* the evaluation starts only when every sampled transaction has been
\* attempted on both models; the report and the alerts are produced only
\* in REPORTING, after both evaluations; a next cycle's SAMPLING begins only
\* from idle, with nothing left of the cycle before, after the sleep between
\* cycles has elapsed in full.
C17_PhaseOrder ==
    /\ [][Phase' \in PhaseSuccessors(Phase)]_vars
    /\ [][requests' # requests =>
             /\ Phase = "SCORING"
             /\ test_transactions # <<>>
             /\ baseline_result = <<>> /\ candidate_result = <<>>]_vars
    /\ [][((performance_history # <<>> /\ performance_history' # performance_history)
           \/ baseline_result' \notin {baseline_result, <<>>}
           \/ candidate_result' \notin {candidate_result, <<>>}) =>
             (Phase = "EVALUATING" /\ calls = AllCalls)]_vars
    /\ [](Phase \in {"EVALUATING", "REPORTING"} => calls = AllCalls)
    /\ [][(report' \notin {report, NoReport}
           \/ baseline_alerts' \notin {baseline_alerts, <<>>}
           \/ candidate_alerts' \notin {candidate_alerts, <<>>}) =>
             /\ Phase = "REPORTING"
             /\ baseline_result # <<>> /\ candidate_result # <<>>]_vars
    /\ [](Phase = "SAMPLING" =>
             /\ calls = {} /\ test_transactions = <<>>
             /\ baseline_result = <<>> /\ candidate_result = <<>>
             /\ report = NoReport)
    /\ [][(pc = "cycle_done" /\ pc' = "loop") =>
             \/ now' - now >= args.interval * MsPerSecond
             \/ now' - start_time >= args.duration * MsPerSecond]_vars
    /\ [][(pc = "loop" /\ Phase' = "SAMPLING") =>
             (now' = now /\ now - start_time < args.duration * MsPerSecond)]_vars

\* the second cycle of a continuous run is reporting on both models
C17_Witness ==
    /\ Phase = "REPORTING"
    /\ cycle_count = 2
    /\ now - start_time >= args.interval * MsPerSecond
    /\ baseline_result # <<>>
    /\ candidate_result # <<>>
    /\ calls = AllCalls

(***************************************************************************)
(* SpecFeedback: records with and without a label are appended, some by    *)
(* the scoring loop, which sets the flag at once; time passes in steps of  *)
(* five minutes; collect_delayed_feedback is called at any moment.         *)
(***************************************************************************)
MaxFeedbackSends == 4

\* lines 419-423, for one model: the call, and the flag set on its result.
\* The list of results is local to the cycle and is not kept here.
ScoreStep(transaction_data, model_name, response, latency) ==
    LET out == SendOutcome(transaction_data, model_name, response, latency)
    IN  /\ pc = "api"
        /\ transaction_buffer' = BufferAfterScore(out)
        /\ RecordSend(out)
        /\ now' = out.time
        /\ log' = out.log
        /\ UNCHANGED <<mainVars, objVars, loopVars, cycleVars, performance_history,
                       last_result, last_alerts, feedback_count, last_drift, config_file,
                       config_run, futures, all_results, batch_start, hash_seed>>

NextFeedback ==
    \/ /\ requests < MaxFeedbackSends
       /\ \E transaction_data \in {FraudTx, UnlabeledTx} :
              SendTestTransaction(transaction_data, Baseline, Http(200, 90), 1)
    \/ /\ requests < MaxFeedbackSends
       /\ ScoreStep(FraudTx, Baseline, Http(200, 90), 1)
    \/ /\ now + 5 * MsPerMinute <= MaxClockMinutes * MsPerMinute
       /\ Tick(5 * MsPerMinute)
    \/ CollectDelayedFeedback

SpecFeedback == InitApi /\ [][NextFeedback]_vars

\* the number of records that have left the buffer
Evicted == Len(appended) - Len(transaction_buffer)

\* the k-th record ever appended is in the buffer, and its flag
Held(k) == k - Evicted \in DOMAIN transaction_buffer
FlagOf(k) == transaction_buffer[k - Evicted].feedback_received

\* the records whose flag a step has changed
FlagChanged ==
    {i \in DOMAIN transaction_buffer :
        transaction_buffer'[i].feedback_received
            # transaction_buffer[i].feedback_received}

\* a step that is a call of collect_delayed_feedback: no request, no time
CollectStep == requests' = requests /\ now' = now

\* C18: the feedback_received flag of a record goes from false to true at
\* most once and never back, and no other field of a record changes after
\* the append.  collect_delayed_feedback sets the flag only on records with
\* a label, without feedback and older than the feedback delay, returns the
\* number of flags it set and changes nothing else in the buffer; after it
\* no record is due at the same clock time, so that a second call returns 0.
C18_FeedbackFlagSetOnce ==
    /\ [](\A i \in DOMAIN transaction_buffer :
             Unflagged(transaction_buffer[i]) = appended[Evicted + i])
    /\ [][\A k \in DOMAIN appended :
             (Held(k) /\ Held(k)' /\ FlagOf(k)) => FlagOf(k)']_vars
    /\ [][CollectStep =>
             /\ Len(transaction_buffer') = Len(transaction_buffer)
             /\ \A i \in DOMAIN transaction_buffer :
                    Unflagged(transaction_buffer'[i]) = Unflagged(transaction_buffer[i])
             /\ \A i \in FlagChanged :
                    /\ transaction_buffer[i].actual_class # NoClass
                    /\ ~transaction_buffer[i].feedback_received
                    /\ transaction_buffer'[i].feedback_received
                    /\ now - transaction_buffer[i].timestamp
                           > FEEDBACK_DELAY_MINUTES * MsPerMinute
             /\ feedback_count' = Cardinality(FlagChanged)
             /\ \A i \in DOMAIN transaction_buffer' :
                    ~FeedbackDue(transaction_buffer'[i], now')]_vars
    /\ [][(CollectStep /\ \A i \in DOMAIN transaction_buffer :
                              ~FeedbackDue(transaction_buffer[i], now)) =>
             (feedback_count' = 0 /\ UNCHANGED transaction_buffer)]_vars

\* one call has just flagged one record, leaving an old record without a
\* label, a record flagged by the scoring loop and a young labeled record
C18_Witness ==
    /\ feedback_count = 1
    /\ \E i, j, k, l \in DOMAIN transaction_buffer :
          /\ transaction_buffer[i].actual_class # NoClass
          /\ transaction_buffer[i].feedback_received
          /\ now - transaction_buffer[i].timestamp > FEEDBACK_DELAY_MINUTES * MsPerMinute
          /\ transaction_buffer[j].actual_class = NoClass
          /\ ~transaction_buffer[j].feedback_received
          /\ now - transaction_buffer[j].timestamp > FEEDBACK_DELAY_MINUTES * MsPerMinute
          /\ transaction_buffer[k].actual_class # NoClass
          /\ ~transaction_buffer[k].feedback_received
          /\ now - transaction_buffer[k].timestamp <= FEEDBACK_DELAY_MINUTES * MsPerMinute
          /\ transaction_buffer[l].feedback_received
          /\ now - transaction_buffer[l].timestamp <= FEEDBACK_DELAY_MINUTES * MsPerMinute

\* C19: the program is stopped only at the top of a cycle: a cycle that has
\* started SCORING goes on through EVALUATING and REPORTING, so that the
\* program never ends in the middle of one, with records of a batch that
\* was scored in part and never evaluated in its buffer.
C19_CancellationOnlyAtTopOfCycle ==
    [][(pc # "exit" /\ pc' = "exit") => Phase \in {"idle", "SAMPLING"}]_vars

\* C20: in a cycle that has evaluated, each model is handled on its own:
\* the alerts of every model that has a result are those the alert checker
\* gives for that result, whether or not the other model has a result; the
\* cycle ends without raising.
C20_AlertsCheckedPerModel ==
    (pc = "cycle_done" /\ calls # {}) =>
        /\ exit_code = NoExit
        /\ baseline_result # <<>> =>
               baseline_alerts = CheckPerformanceAlerts(baseline_result[1])
        /\ candidate_result # <<>> =>
               candidate_alerts = CheckPerformanceAlerts(candidate_result[1])

\* the calls of the cycle that gave no result
FailedCalls == Cardinality(calls) - Len(baseline_results) - Len(candidate_results)

\* C21: a cycle in which more than the configured fraction of the inference
\* calls failed (here one call in ten) does not end with the comparison
\* reported as a normal success.
C21_FailuresDegradeReport ==
    (pc = "cycle_done" /\ FailedCalls * 10 > Cardinality(calls)) =>
        (log # "model-comparison" /\ ~report.compared)

(***************************************************************************)
(* SpecCompare: the comparison of the two models on a scored batch of      *)
(* CompareFraudRows fraud and CompareLegitRows legitimate transactions, by *)
(* the validation cycle (evaluation and report) and by the analysis of the *)
(* traffic simulation.  Each model has caught any number of the frauds and *)
(* raised any number of false alarms.                                      *)
(***************************************************************************)
CompareFraudRows == 23
CompareLegitRows == 1

Max(a, b) == IF a > b THEN a ELSE b

CompareBatch ==
    [i \in 1..(CompareFraudRows + CompareLegitRows) |->
        IF i <= CompareFraudRows THEN FraudTx ELSE NormalTx]

\* the results of one model with tp frauds caught and fp false alarms
CompareResults(model_name, tp, fp) ==
    ScenarioRecords(model_name, tp, fp, CompareFraudRows - tp, CompareLegitRows - fp)

\* simulate-fraud-traffic.py, analyze_results, lines 261-283: the
\* recommendation printed by the comparison of the two models
Recommendation(baseline, candidate) ==
    LET caught(results) ==
            Cardinality({i \in DOMAIN results :
                            results[i].actual_class = 1 /\ results[i].prediction_class = 1})
        fraud(results) ==
            Cardinality({i \in DOMAIN results : results[i].actual_class = 1})
        baseline_recall == <<caught(baseline), Max(1, fraud(baseline))>>
        candidate_recall == <<caught(candidate), Max(1, fraud(candidate))>>
    IN  IF baseline = <<>> \/ candidate = <<>> THEN "no-comparison"
        ELSE IF ChangeAtLeast5(candidate_recall, baseline_recall) THEN "promote"
        ELSE "continue-monitoring"

AnalyzeResults ==
    /\ pc = "analyze"
    /\ log' = Recommendation(baseline_results, candidate_results)
    /\ pc' = "exit"
    /\ exit_code' = 0
    /\ UNCHANGED <<args, ref_data, holdout, served, objVars, transaction_buffer,
                   performance_history, now, loopVars, cycleVars, last_result,
                   last_alerts, feedback_count, appended, requests, wire, last_drift,
                   config_file, config_run, futures, all_results, batch_start, hash_seed>>

InitCompare ==
    /\ pc \in {"evaluate", "analyze"}
    /\ exit_code = NoExit
    /\ args = SingleCycleArgs(Len(CompareBatch))
    /\ holdout = HoldoutGood
    /\ served = [m \in ConfiguredModels |-> "accurate"]
    /\ ref_data = RefGood
    /\ feature_columns = SelectFeatureColumns(RefGood.columns)
    /\ scaler = FitScaler(RefGood, SelectFeatureColumns(RefGood.columns))
    /\ baseline_stats = BaselineStats(RefGood, SelectFeatureColumns(RefGood.columns))
    /\ \E tp_b, tp_c \in 0..CompareFraudRows, fp_b, fp_c \in 0..CompareLegitRows :
          /\ baseline_results = CompareResults(Baseline, tp_b, fp_b)
          /\ candidate_results = CompareResults(Candidate, tp_c, fp_c)
    /\ transaction_buffer = baseline_results \o candidate_results
    /\ performance_history = [m \in ConfiguredModels |-> <<>>]
    /\ now = EvalClock
    /\ start_time = 0
    /\ cycle_count = 0
    /\ batch_size = Len(CompareBatch)
    /\ test_transactions = CompareBatch
    /\ idx = Len(CompareBatch) + 1
    /\ baseline_result = <<>>
    /\ candidate_result = <<>>
    /\ baseline_alerts = <<>>
    /\ candidate_alerts = <<>>
    /\ report = NoReport
    /\ calls = (1..Len(CompareBatch)) \X ConfiguredModels
    /\ last_result = NotCalled
    /\ last_alerts = NoAlerts
    /\ feedback_count = 0
    /\ appended = [i \in DOMAIN transaction_buffer |-> Unflagged(transaction_buffer[i])]
    /\ requests = Len(transaction_buffer)
    /\ wire = NoWire
    /\ last_drift = NoDrift
    /\ hash_seed = 0
    /\ batch_start = 0
    /\ all_results = <<>>
    /\ futures = <<>>
    /\ config_run = NoConfigRun
    /\ config_file = DefaultConfigFile
    /\ log = "none"

NextCompare ==
    \/ Evaluate
    \/ Report
    \/ AnalyzeResults

SpecCompare == InitCompare /\ [][NextCompare]_vars

\* the recall of a list of results, as a fraction of counts
RecallOf(results) ==
    <<Cardinality({i \in DOMAIN results :
                      results[i].actual_class = 1 /\ results[i].prediction_class = 1}),
      Max(1, Cardinality({i \in DOMAIN results : results[i].actual_class = 1}))>>

\* C22: the report gives the recall check as met exactly when the
\* candidate's recall is at least 5 % above the baseline's, relative to the
\* baseline's, and the precision check as met exactly when the relative
\* change of the precision is between -5 % and 5 %; a baseline recall or
\* precision of 0 gives a change of 0.  The traffic simulation recommends
\* to promote the candidate by the same rule on the recall.
C22_ReportThresholds ==
    /\ (pc = "cycle_done" /\ report.compared) =>
          LET recall_change ==
                  PercentChange(candidate_result[1].recall, baseline_result[1].recall)
              precision_change ==
                  PercentChange(candidate_result[1].precision, baseline_result[1].precision)
          IN  /\ report.recall_met <=> RatLe(<<5, 1>>, recall_change)
              /\ report.precision_stable <=> RatLe(RatAbs(precision_change), <<5, 1>>)
              /\ RatEq(baseline_result[1].recall, Zero) => ~report.recall_met
              /\ RatEq(baseline_result[1].precision, Zero) => report.precision_stable
    /\ log \in {"promote", "continue-monitoring"} =>
          (log = "promote"
              <=> RatLe(<<5, 1>>, PercentChange(RecallOf(candidate_results),
                                                RecallOf(baseline_results))))

\* C23: the result of a model in a validation cycle is computed over exactly
\* the records scored for that model in the same cycle: none of them is
\* outside the one-minute lookback and no record of an earlier cycle is
\* inside it.
C23_ResultOverCycleRecords ==
    pc = "report" =>
        /\ baseline_result # <<>> => ModelTransactions(Baseline, 1) = baseline_results
        /\ candidate_result # <<>> => ModelTransactions(Candidate, 1) = candidate_results

(***************************************************************************)
(* Transaction ids.  The id of a record is the model's name and the        *)
(* millisecond in which send_test_transaction was entered (line 124).      *)
(* Here the calls of a continuous run follow each other as closely as the  *)
(* code allows: every request is answered within the millisecond in which  *)
(* it was sent.                                                            *)
(***************************************************************************)
SameMillisecond == 0

InitIds ==
    /\ pc = "run"
    /\ exit_code = NoExit
    /\ args = ContinuousArgs(DefaultCycleBatch, 2, 1)
    /\ holdout = HoldoutGood
    /\ served = [m \in ConfiguredModels |-> "accurate"]
    /\ Constructed(RefGood)
    /\ now = 0
    /\ start_time = 0
    /\ cycle_count = 0
    /\ NoCycle
    /\ last_result = NotCalled
    /\ last_alerts = NoAlerts
    /\ feedback_count = 0
    /\ appended = <<>>
    /\ requests = 0
    /\ wire = NoWire
    /\ last_drift = NoDrift
    /\ hash_seed = 0
    /\ batch_start = 0
    /\ all_results = <<>>
    /\ futures = <<>>
    /\ config_run = NoConfigRun
    /\ config_file = DefaultConfigFile
    /\ log = "none"

NextIds ==
    \/ RunContinuous
    \/ LoopTest
    \/ CycleSample
    \/ ScoreBaselineAfter(SameMillisecond)
    \/ ScoreCandidateAfter(SameMillisecond)
    \/ Evaluate
    \/ Report
    \/ CycleDone

SpecIds == InitIds /\ [][NextIds]_vars

\* C24: no two records in the transaction buffer have the same
\* transaction_id.
C24_UniqueTransactionIds ==
    \A i, j \in DOMAIN transaction_buffer :
        transaction_buffer[i].transaction_id = transaction_buffer[j].transaction_id
            => i = j

\* the buffer holds records of two cycles, and two requests to the same
\* model were answered within the millisecond in which they were sent
C24_Witness ==
    /\ cycle_count >= 2
    /\ \E i, j \in DOMAIN transaction_buffer :
          /\ i < j
          /\ transaction_buffer[i].model_name = transaction_buffer[j].model_name
          /\ transaction_buffer[i].timestamp = transaction_buffer[i].transaction_id[2]
          /\ transaction_buffer[j].timestamp = transaction_buffer[j].transaction_id[2]
          /\ transaction_buffer[j].transaction_id[2]
                 < transaction_buffer[1].transaction_id[2] + DefaultCycleBatch * ScorePauseMs
    /\ transaction_buffer[Len(transaction_buffer)].transaction_id[2]
           >= transaction_buffer[1].transaction_id[2] + DefaultCycleBatch * ScorePauseMs

(***************************************************************************)
(* SpecHistory: the evaluator is called again and again, for the two       *)
(* configured models and for a third one, while the clock advances.  The   *)
(* buffer holds MinSampleSize records, one minute old at the start, of two *)
(* of the three models.                                                    *)
(***************************************************************************)
MaxHistoryTicks == 3

HistoryBuffers ==
    {ScenarioRecords(names[1], 1, 0, 0, MinSampleSize - 1)
         \o ScenarioRecords(names[2], 1, 0, 0, MinSampleSize - 1) :
     names \in {<<Baseline, Candidate>>, <<Baseline, Shadow>>, <<Candidate, Shadow>>}}

InitHistory ==
    /\ pc = "api"
    /\ exit_code = NoExit
    /\ args = DefaultArgs
    /\ holdout = HoldoutGood
    /\ served = [m \in ConfiguredModels |-> "accurate"]
    /\ ref_data = RefGood
    /\ feature_columns = SelectFeatureColumns(RefGood.columns)
    /\ scaler = FitScaler(RefGood, SelectFeatureColumns(RefGood.columns))
    /\ baseline_stats = BaselineStats(RefGood, SelectFeatureColumns(RefGood.columns))
    /\ transaction_buffer \in HistoryBuffers
    /\ performance_history = [m \in ConfiguredModels |-> <<>>]
    /\ now = EvalClock
    /\ start_time = 0
    /\ cycle_count = 0
    /\ NoCycle
    /\ last_result = NotCalled
    /\ last_alerts = NoAlerts
    /\ feedback_count = 0
    /\ appended = [i \in DOMAIN transaction_buffer |-> Unflagged(transaction_buffer[i])]
    /\ requests = Len(transaction_buffer)
    /\ wire = NoWire
    /\ last_drift = NoDrift
    /\ hash_seed = 0
    /\ batch_start = 0
    /\ all_results = <<>>
    /\ futures = <<>>
    /\ config_run = NoConfigRun
    /\ config_file = DefaultConfigFile
    /\ log = "none"

NextHistory ==
    \/ \E model_name \in {Baseline, Candidate, Shadow}, lookback_minutes \in {1, 60} :
           ValidateModelPerformance(model_name, lookback_minutes)
    \/ /\ now < EvalClock + MaxHistoryTicks * MsPerMinute
       /\ Tick(MsPerMinute)

SpecHistory == InitHistory /\ [][NextHistory]_vars

\* the last n elements of a sequence
LastOf(s, n) == SubSeq(s, Len(s) - Min(n, Len(s)) + 1, Len(s))

\* C25: a history never holds more than HistoryMaxLen results; a call of
\* the evaluator that returns a result appends it to the history of the
\* evaluated model, evicting the oldest result of a full history, and
\* leaves the other histories unchanged; a call that returns None leaves
\* every history unchanged.
C25_HistoryBoundedAndAppendedOnce ==
    [][LET value == last_result'.value
           model_name == last_result'.model_name
       IN  /\ \A m \in DOMAIN performance_history' :
                  Len(performance_history'[m]) <= HistoryMaxLen
           /\ (now' = now /\ value # <<>>) =>
                  /\ model_name \in DOMAIN performance_history
                  /\ DOMAIN performance_history' = DOMAIN performance_history
                  /\ performance_history'[model_name] =
                         LastOf(Append(performance_history[model_name], value[1]),
                                HistoryMaxLen)
                  /\ \A m \in DOMAIN performance_history \ {model_name} :
                         performance_history'[m] = performance_history[m]
           /\ (now' = now /\ value = <<>>) =>
                  performance_history' = performance_history]_vars

\* a full history whose oldest result is no longer the first one computed,
\* after a call for the third model returned None
C25_Witness ==
    /\ \E m \in ConfiguredModels :
          /\ Len(performance_history[m]) = HistoryMaxLen
          /\ performance_history[m][1].timestamp > EvalClock
          /\ performance_history[m][HistoryMaxLen].timestamp
                 > performance_history[m][1].timestamp
    /\ last_result.called
    /\ last_result.model_name = Shadow
    /\ last_result.lookback_minutes = 60
    /\ last_result.value = <<>>
    /\ \E i \in DOMAIN transaction_buffer : transaction_buffer[i].model_name = Shadow

(***************************************************************************)
(* SpecLoop: run_continuous_validation for several durations and           *)
(* intervals.  The loop runs in one thread and nothing suspends it: a      *)
(* program that has not returned eventually moves on from the position it  *)
(* is at (every step of NextLoop changes pc, and one is possible at every   *)
(* position but "exit").                                                   *)
(***************************************************************************)
LoopPositions ==
    {"run", "loop", "cycle", "score_baseline", "score_candidate", "evaluate", "report",
     "cycle_done", "exit"}
MovesOn == pc # "exit" /\ pc' \in LoopPositions \ {pc}

LoopArgSets ==
    {ContinuousArgs(DefaultCycleBatch, duration, interval) :
        duration \in {-1, 0, 1, 2}, interval \in {1, 3}}

InitLoop ==
    /\ pc = "run"
    /\ exit_code = NoExit
    /\ args \in LoopArgSets
    /\ holdout = HoldoutGood
    /\ served = [m \in ConfiguredModels |-> "accurate"]
    /\ Constructed(RefGood)
    /\ now = 0
    /\ start_time = 0
    /\ cycle_count = 0
    /\ NoCycle
    /\ last_result = NotCalled
    /\ last_alerts = NoAlerts
    /\ feedback_count = 0
    /\ appended = <<>>
    /\ requests = 0
    /\ wire = NoWire
    /\ last_drift = NoDrift
    /\ hash_seed = 0
    /\ batch_start = 0
    /\ all_results = <<>>
    /\ futures = <<>>
    /\ config_run = NoConfigRun
    /\ config_file = DefaultConfigFile
    /\ log = "none"

NextLoop ==
    \/ RunContinuous
    \/ LoopTest
    \/ CycleSample
    \/ ScoreBaseline
    \/ ScoreCandidate
    \/ Evaluate
    \/ Report
    \/ CycleDone

SpecLoop == InitLoop /\ [][NextLoop]_vars /\ WF_pc(MovesOn)

\* the end of the duration, on the clock
Deadline == start_time + args.duration * MsPerSecond

\* C26: a cycle starts only while the elapsed time is less than the
\* duration, and none starts when the duration is zero or negative; after a
\* cycle the loop sleeps min(interval, remaining) when that is positive and
\* never sleeps past the end of the duration; the loop terminates.
C26_LoopTerminates ==
    /\ [][/\ (pc = "loop" /\ pc' = "cycle") => now < Deadline
          /\ (pc = "cycle_done" /\ pc' = "loop") =>
                 /\ now < Deadline =>
                        /\ now' = now + Min(args.interval * MsPerSecond, Deadline - now)
                        /\ now' <= Deadline
                 /\ now >= Deadline => now' = now]_vars
    /\ [](args.duration <= 0 => cycle_count = 0)
    /\ <>(pc = "exit")

\* the loop has ended after two cycles, the second of them cut short of a
\* full interval's sleep by the end of the duration
C26_Witness ==
    /\ pc = "exit"
    /\ cycle_count = 2
    /\ log = "continuous-validation-completed"
    /\ now = Deadline
    /\ args.interval * MsPerSecond < args.duration * MsPerSecond

(***************************************************************************)
(* SpecSend: send_test_transaction is called again and again with the one  *)
(* transaction its caller holds (test_transactions[1]), complete or not,   *)
(* and the endpoint answers in every way it can.                           *)
(***************************************************************************)
MaxSendRequests == 3

SendInputs == {FraudTx, NormalTx, UnlabeledTx, NoAmountTx}
SendResponses ==
    {NetError, Http(500, Malformed), Http(200, Malformed), Http(200, 90), Http(200, 20)}

InitSend ==
    /\ pc = "api"
    /\ exit_code = NoExit
    /\ args = DefaultArgs
    /\ holdout = HoldoutGood
    /\ served = [m \in ConfiguredModels |-> "accurate"]
    /\ \E ref \in {RefGood, RefExtraColumn} : Constructed(ref)
    /\ now = 0
    /\ start_time = 0
    /\ cycle_count = 0
    /\ batch_size = 0
    /\ test_transactions \in {<<transaction_data>> : transaction_data \in SendInputs}
    /\ idx = 1
    /\ baseline_results = <<>>
    /\ candidate_results = <<>>
    /\ baseline_result = <<>>
    /\ candidate_result = <<>>
    /\ baseline_alerts = <<>>
    /\ candidate_alerts = <<>>
    /\ report = NoReport
    /\ calls = {}
    /\ last_result = NotCalled
    /\ last_alerts = NoAlerts
    /\ feedback_count = 0
    /\ appended = <<>>
    /\ requests = 0
    /\ wire = NoWire
    /\ last_drift = NoDrift
    /\ hash_seed = 0
    /\ batch_start = 0
    /\ all_results = <<>>
    /\ futures = <<>>
    /\ config_run = NoConfigRun
    /\ config_file = DefaultConfigFile
    /\ log = "none"

NextSend ==
    /\ requests < MaxSendRequests
    /\ \E model_name \in ConfiguredModels, response \in SendResponses :
           SendTestTransaction(test_transactions[idx], model_name, response, 1)

SpecSend == InitSend /\ [][NextSend]_vars

\* C27: one call of send_test_transaction sends exactly one request when
\* preprocessing succeeds and none when a required feature is missing,
\* whatever the endpoint answers.
C27_NoRetry ==
    [][requests' = requests
                      + (IF PreprocessTransaction(test_transactions[idx]) = <<>>
                         THEN 0 ELSE 1)]_vars

\* three calls were made, each sent one request, and none gave a prediction
C27_Witness ==
    /\ requests = MaxSendRequests
    /\ now = MaxSendRequests
    /\ appended = <<>>
    /\ log = "bad-status"

(***************************************************************************)
(* scripts/replay_transactions.py: replay_transactions_batch and           *)
(* send_transaction.  The transactions are numbered 0..n-1; each batch is  *)
(* submitted to a thread pool of max_workers threads, which takes the      *)
(* queued calls in the order of submission, and the main thread collects   *)
(* the results in the order as_completed yields them.  futures[i] is       *)
(* "unsubmitted", "queued", "running", "success" or "error" (the call has  *)
(* returned that result) or "collected" (the result is in all_results).    *)
(***************************************************************************)
ReplayTransactions == 4
ReplayBatchSize == 3
ReplayMaxWorkers == 2

\* self.baseline_weight * 100
BaselineWeightPercent == 80
\* delay_seconds, as main passes it
ReplayDelayMs == MsPerSecond

\* the seeds a Python process can start with: PYTHONHASHSEED is random
\* unless the environment fixes it
HashSeeds == {0, 1, 2}
\* hash(str(transaction_id)) % 100.  The hash of a str is keyed by the
\* seed of the process; this function stands for it in that it depends on
\* both the text and the seed.
StrHashMod100(seed, transaction_id) == (transaction_id * 17 + seed * 29) % 100

\* lines 153-159: the variant the call is routed to
ModelVariant(seed, transaction_id) ==
    IF StrHashMod100(seed, transaction_id) < BaselineWeightPercent
    THEN Baseline ELSE Candidate

TransactionIds == 0..(ReplayTransactions - 1)
BatchEnd == Min(batch_start + ReplayBatchSize, ReplayTransactions)
BatchIds == batch_start..(BatchEnd - 1)
Running == {i \in TransactionIds : futures[i] = "running"}

\* the dict send_transaction returns
ReplayResult(transaction_id, status) ==
    IF status = "success"
    THEN [transaction_id |-> transaction_id, status |-> status,
          model_variant |-> ModelVariant(hash_seed, transaction_id)]
    ELSE [transaction_id |-> transaction_id, status |-> status,
          model_variant |-> "none"]

InitReplay ==
    /\ pc = "replay_batch"
    /\ exit_code = NoExit
    /\ args = DefaultArgs
    /\ holdout = HoldoutGood
    /\ served = [m \in ConfiguredModels |-> "accurate"]
    /\ Constructed(RefGood)
    /\ now = 0
    /\ start_time = 0
    /\ cycle_count = 0
    /\ NoCycle
    /\ last_result = NotCalled
    /\ last_alerts = NoAlerts
    /\ feedback_count = 0
    /\ appended = <<>>
    /\ requests = 0
    /\ wire = NoWire
    /\ last_drift = NoDrift
    /\ config_run = NoConfigRun
    /\ config_file = DefaultConfigFile
    /\ futures = [i \in TransactionIds |-> "unsubmitted"]
    /\ all_results = <<>>
    /\ batch_start = 0
    /\ hash_seed \in HashSeeds
    /\ log = "none"

replayOther == <<exit_code, args, ref_data, holdout, served, objVars, loopVars, cycleVars,
                 transaction_buffer, performance_history, last_result, last_alerts,
                 feedback_count, appended, requests, wire, last_drift, config_file,
                 config_run, hash_seed, log>>

\* lines 245-249: the calls of the batch are submitted to the pool
SubmitBatch ==
    /\ pc = "replay_batch"
    /\ futures' = [i \in TransactionIds |-> IF i \in BatchIds THEN "queued" ELSE futures[i]]
    /\ pc' = "replay_collect"
    /\ UNCHANGED <<replayOther, now, all_results, batch_start>>

\* mutant: the pool starts a thread for every submitted call
StartCallUnlimited(i) ==
    /\ pc = "replay_collect"
    /\ futures[i] = "queued"
    /\ \A j \in TransactionIds : futures[j] = "queued" => i <= j
    /\ futures' = [futures EXCEPT ![i] = "running"]
    /\ UNCHANGED <<replayOther, pc, now, all_results, batch_start>>

\* a free worker thread takes the oldest queued call and enters
\* send_transaction
StartCall(i) ==
    /\ pc = "replay_collect"
    /\ futures[i] = "queued"
    /\ \A j \in TransactionIds : futures[j] = "queued" => i <= j
    /\ Cardinality(Running) < ReplayMaxWorkers
    /\ futures' = [futures EXCEPT ![i] = "running"]
    /\ UNCHANGED <<replayOther, pc, now, all_results, batch_start>>

\* send_transaction returns: a success dict, or an error dict for a status
\* other than 200 and for every exception (lines 143-216)
FinishCall(i, status) ==
    /\ pc = "replay_collect"
    /\ futures[i] = "running"
    /\ futures' = [futures EXCEPT ![i] = status]
    /\ UNCHANGED <<replayOther, pc, now, all_results, batch_start>>

\* lines 252-255: as_completed yields a finished call and its result is
\* appended
CollectResult(i) ==
    /\ pc = "replay_collect"
    /\ futures[i] \in {"success", "error"}
    /\ all_results' = Append(all_results, ReplayResult(i, futures[i]))
    /\ futures' = [futures EXCEPT ![i] = "collected"]
    /\ UNCHANGED <<replayOther, pc, now, batch_start>>

\* lines 257-284: every call of the batch was collected and the pool is
\* shut down; the loop sleeps and goes on with the next batch, or returns
EndBatch ==
    /\ pc = "replay_collect"
    /\ \A i \in BatchIds : futures[i] = "collected"
    /\ IF BatchEnd < ReplayTransactions
       THEN /\ now' = now + ReplayDelayMs
            /\ batch_start' = batch_start + ReplayBatchSize
            /\ pc' = "replay_batch"
       ELSE /\ pc' = "replay_done"
            /\ UNCHANGED <<now, batch_start>>
    /\ UNCHANGED <<replayOther, futures, all_results>>

NextReplay ==
    \/ SubmitBatch
    \/ \E i \in TransactionIds : StartCall(i)
    \/ \E i \in TransactionIds, status \in {"success", "error"} : FinishCall(i, status)
    \/ \E i \in TransactionIds : CollectResult(i)
    \/ EndBatch

SpecReplay == InitReplay /\ [][NextReplay]_vars

BatchOf(i) == i \div ReplayBatchSize

\* C28: the returned list holds one result for each transaction id
\* 0..n-1; no call of a batch is started before every call of the batches
\* before it has returned; at most ReplayMaxWorkers calls are running.
C28_OneResultPerTransaction ==
    /\ pc = "replay_done" =>
           /\ Len(all_results) = ReplayTransactions
           /\ \A id \in TransactionIds :
                  Cardinality({k \in DOMAIN all_results :
                                  all_results[k].transaction_id = id}) = 1
    /\ \A i, j \in TransactionIds :
           (BatchOf(i) < BatchOf(j) /\ futures[j] \notin {"unsubmitted", "queued"})
               => futures[i] \in {"success", "error", "collected"}
    /\ Cardinality(Running) <= ReplayMaxWorkers

\* the replay has returned; a later call of the first batch finished before
\* an earlier one, and one call failed while another succeeded
C28_Witness ==
    /\ pc = "replay_done"
    /\ batch_start > 0
    /\ all_results[1].transaction_id > all_results[2].transaction_id
    /\ \E k, l \in DOMAIN all_results :
           all_results[k].status = "error" /\ all_results[l].status = "success"

\* C29: every transaction is sent to one of the two variants, the baseline
\* exactly when its hash is below the baseline weight, and a transaction id
\* is routed to the same variant in every run of the program: to the one
\* it is routed to in a run with hash seed 0.
C29_RoutingSameInEveryRun ==
    \A k \in DOMAIN all_results :
        all_results[k].status = "success" =>
            /\ all_results[k].model_variant \in ConfiguredModels
            /\ all_results[k].model_variant = Baseline
                   <=> StrHashMod100(hash_seed, all_results[k].transaction_id)
                           < BaselineWeightPercent
            /\ all_results[k].model_variant
                   = ModelVariant(0, all_results[k].transaction_id)

(***************************************************************************)
(* SpecSample: single validation cycles with every batch size up to        *)
(* MaxSampleRequest, more than a third of which is more fraud rows than    *)
(* the holdout file has.                                                   *)
(***************************************************************************)
MaxSampleRequest == 7

InitSample ==
    /\ pc = "run"
    /\ exit_code = NoExit
    /\ args \in {SingleCycleArgs(n) : n \in 1..MaxSampleRequest}
    /\ holdout = HoldoutGood
    /\ served = [m \in ConfiguredModels |-> "accurate"]
    /\ Constructed(RefGood)
    /\ now = 0
    /\ start_time = 0
    /\ cycle_count = 0
    /\ NoCycle
    /\ last_result = NotCalled
    /\ last_alerts = NoAlerts
    /\ feedback_count = 0
    /\ appended = <<>>
    /\ requests = 0
    /\ wire = NoWire
    /\ last_drift = NoDrift
    /\ config_run = NoConfigRun
    /\ config_file = DefaultConfigFile
    /\ futures = <<>>
    /\ all_results = <<>>
    /\ batch_start = 0
    /\ hash_seed = 0
    /\ log = "none"

NextSample ==
    \/ RunSingleCycle
    \/ CycleSample
    \/ ScoreBaseline
    \/ ScoreCandidate
    \/ Evaluate
    \/ Report
    \/ CycleDone

SpecSample == InitSample /\ [][NextSample]_vars

FraudRequested == (batch_size * 3) \div 10

FraudRows == {i \in DOMAIN holdout.rows : holdout.rows[i][ColClass] = 1}
FraudTaken == Min(FraudRequested, Cardinality(FraudRows))

====
